---- MODULE Spec2Model ----
(***************************************************************************)
(* Acquisition orchestration and export pipeline of the Android forensic   *)
(* extractor: RootExtractor / NoRootExtractor (class/core), the bridge     *)
(* entry point run_forensic_from_cfg (source/forensic_bridge.py) and the   *)
(* export module (class/exp/exportacion.py).                                *)
(*                                                                         *)
(* The local file system is a function from paths to byte sequences.  The  *)
(* device bridge is the environment: every bridge command may fail, and a  *)
(* streamed command delivers a nondeterministic number of chunks before it *)
(* exits with a nondeterministic return code.  Starting the bridge process *)
(* and writing a streamed chunk may raise; the small log and dump files    *)
(* are assumed to be written; run_cmd returns its (rc, out, err) triple.   *)
(* Text encoding is the POSIX one (os.linesep = LF).                       *)
(***************************************************************************)
EXTENDS Integers, Sequences, FiniteSets, TLC

(* ------------------------------ bounds -------------------------------- *)
\* chunks a streamed bridge command may deliver before it ends
MaxChunks == 1
\* entries of RootOptions.userdata_block_alt
MaxAlt == 0
\* length of a raw file offered to the stand-alone export
MaxLen == 2

(* ------------------------------ bytes --------------------------------- *)
LF == "LF"
CR == "CR"
RowByte == "R"
BadByte == "xFF"
ZipByte == "P"
ErrByte == "E"
\* the bytes a raw text dump is made of: a record-marker letter, the two
\* line terminators and a byte that is never valid in UTF-8
Byte == {RowByte, LF, CR, BadByte}

\* a path that holds no file
NoFile == <<"absent">>

(* ------------------- text decoding and encoding ----------------------- *)
\* bytes.decode("utf-8", errors="ignore"): undecodable bytes are dropped
RECURSIVE Utf8Ignore(_)
Utf8Ignore(bs) ==
    IF bs = <<>> THEN <<>>
    ELSE IF Head(bs) = BadByte THEN Utf8Ignore(Tail(bs))
    ELSE <<Head(bs)>> \o Utf8Ignore(Tail(bs))

\* text-mode reading with newline=None: CR LF and a lone CR become LF
RECURSIVE UniversalNewlines(_)
UniversalNewlines(cs) ==
    IF cs = <<>> THEN <<>>
    ELSE IF Head(cs) = CR
         THEN IF Len(cs) >= 2 /\ cs[2] = LF
              THEN <<LF>> \o UniversalNewlines(Tail(Tail(cs)))
              ELSE <<LF>> \o UniversalNewlines(Tail(cs))
    ELSE <<Head(cs)>> \o UniversalNewlines(Tail(cs))

\* str.encode("utf-8") followed by the text-mode write: every character a
\* decoded text can hold is one byte, LF is written as os.linesep (LF)
RECURSIVE EncodeUtf8(_)
EncodeUtf8(cs) ==
    IF cs = <<>> THEN <<>>
    ELSE <<Head(cs)>> \o EncodeUtf8(Tail(cs))

\* Path.read_text(encoding="utf-8", errors="ignore"); "" when absent
read_text_safe(content) ==
    IF content = NoFile THEN <<>> ELSE UniversalNewlines(Utf8Ignore(content))

\* Path.write_text(text, encoding="utf-8")
write_text(text) == EncodeUtf8(text)

\* subprocess.run(..., text=True, encoding="utf-8", errors="ignore")
run_cmd_text(raw) == UniversalNewlines(Utf8Ignore(raw))

\* number of lines of a text that start with the record marker
RECURSIVE RowCount(_, _)
RowCount(cs, atStart) ==
    IF cs = <<>> THEN 0
    ELSE (IF atStart /\ Head(cs) = RowByte THEN 1 ELSE 0)
         + RowCount(Tail(cs), Head(cs) = LF)

(* --------------------------- the catalogs ------------------------------ *)
\* the option fields of RootOptions / NoRootOptions that the catalogs use
RootFlags == {"contacts", "userdata_image"}
NoRootFlags == {"contacts", "wifi_dumpsys", "apks", "bugreport_zip"}
Flags == RootFlags \cup NoRootFlags

\* RootExtractor.extract_all flattened into the sequence of its steps: the
\* su check, one core database, its content-provider view and the
\* block-device image (stream_tar_dir artifacts run the loop of stream_file)
RootCatalog == <<
    [id |-> "su_id", flag |-> "always", kind |-> "verify_root",
     dest |-> "logs/su_id.txt", errlog |-> "none", ncand |-> 1],
    [id |-> "contacts2.db", flag |-> "contacts", kind |-> "stream_file",
     dest |-> "root/databases/contacts2.db",
     errlog |-> "contacts2.db", ncand |-> 2],
    [id |-> "contacts.txt", flag |-> "contacts", kind |-> "query",
     dest |-> "root/logical/contacts.txt",
     errlog |-> "logs/contacts.txt_err.txt", ncand |-> 1],
    [id |-> "userdata.img", flag |-> "userdata_image", kind |-> "stream_dd_image",
     dest |-> "root/images/userdata.img",
     errlog |-> "userdata.img", ncand |-> 1] >>

\* NoRootExtractor.extract_all flattened the same way
NoRootCatalog == <<
    [id |-> "contacts.txt", flag |-> "contacts", kind |-> "shell_to_file",
     dest |-> "noroot/logical/contacts.txt",
     errlog |-> "logs/contacts.txt_err.txt", ncand |-> 1],
    [id |-> "dumpsys_wifi.txt", flag |-> "wifi_dumpsys", kind |-> "shell_to_file",
     dest |-> "noroot/system/dumpsys_wifi.txt",
     errlog |-> "logs/dumpsys_wifi_err.txt", ncand |-> 1],
    [id |-> "pm_list", flag |-> "apks", kind |-> "pm_list",
     dest |-> "logs/pm_list_packages_f.txt",
     errlog |-> "logs/pm_list_packages_f_err.txt", ncand |-> 1],
    [id |-> "pkg.apk", flag |-> "apks", kind |-> "apk",
     dest |-> "noroot/apps/apks/pkg.apk", errlog |-> "pkg.apk", ncand |-> 1],
    [id |-> "uptime.txt", flag |-> "always", kind |-> "shell_to_file",
     dest |-> "noroot/system/uptime.txt",
     errlog |-> "logs/uptime_err.txt", ncand |-> 1],
    [id |-> "bugreport.zip", flag |-> "bugreport_zip", kind |-> "bugreport",
     dest |-> "noroot/system/bugreport.zip",
     errlog |-> "logs/bugreport_stdout_stderr.txt", ncand |-> 1] >>

Catalog(root) == IF root THEN RootCatalog ELSE NoRootCatalog

StreamKinds == {"stream_file", "stream_tar_dir", "stream_dd_image", "apk"}
CmdKinds == {"verify_root", "query", "shell_to_file", "pm_list", "bugreport"}

ArtifactIds ==
    {RootCatalog[i].id : i \in DOMAIN RootCatalog}
        \cup {NoRootCatalog[i].id : i \in DOMAIN NoRootCatalog}

\* the files adb_exec_out_to_file leaves in logs_dir for a destination name
ExecoutErr(name) == "logs/execout_err_" \o name \o ".txt"
ExecoutExc(name) == "logs/execout_exc_" \o name \o ".txt"

StreamEntries ==
    {RootCatalog[i] : i \in {j \in DOMAIN RootCatalog : RootCatalog[j].kind \in StreamKinds}}
        \cup {NoRootCatalog[i] : i \in {j \in DOMAIN NoRootCatalog : NoRootCatalog[j].kind \in StreamKinds}}

CmdEntries ==
    {RootCatalog[i] : i \in {j \in DOMAIN RootCatalog : RootCatalog[j].kind \in CmdKinds}}
        \cup {NoRootCatalog[i] : i \in {j \in DOMAIN NoRootCatalog : NoRootCatalog[j].kind \in CmdKinds}}

\* files of the acquired raw store (everything extract_all writes outside logs)
RawPaths ==
    {e.dest : e \in {x \in StreamEntries \cup CmdEntries : x.kind \notin {"verify_root", "pm_list"}}}
        \cup {"root/logical/sms.txt", "noroot/logical/sms.txt",
              "root/system/dumpsys_wifi.txt", "root/system/bugreport.zip"}

LogPaths ==
    {e.dest : e \in {x \in CmdEntries : x.kind \in {"verify_root", "pm_list"}}}
        \cup {e.errlog : e \in {x \in CmdEntries : x.errlog # "none"}}
        \cup {ExecoutErr(e.errlog) : e \in StreamEntries}
        \cup {ExecoutExc(e.errlog) : e \in StreamEntries}
        \cup {"logs/getprop.txt", "logs/device_date.txt"}

ExportPaths ==
    {"export/raw/contacts.txt", "export/raw/sms.txt",
     "export/raw/dumpsys_wifi.txt", "export/raw/bugreport.zip",
     "export/legible/contactos.csv", "export/legible/sms_legible.csv",
     "export/legible/sms_resumen_por_numero.csv",
     "export/resumen_forense.xlsx"}

Paths == RawPaths \cup LogPaths \cup ExportPaths

(* ------------------------------ state ---------------------------------- *)
VARIABLES
    mode_root,    \* analyzer.mode_root: RootExtractor or NoRootExtractor
    opt,          \* the options object handed to extract_all
    nalt,         \* len(opt.userdata_block_alt or [])
    format_mode,  \* analyzer.format_mode, "L" or "C"
    phase,        \* position of run_forensic_from_cfg
    step,         \* index of the catalog step extract_all is at
    cand,         \* index of the candidate the stream_* loop is at
    xpc,          \* position inside adb_exec_out_to_file
    nread,        \* chunks the current bridge process has delivered
    fs,           \* the local file system: path -> bytes, or NoFile
    procs,        \* bridge processes started and not waited for: they may still run
    ncmd,         \* number of bridge processes started so far
    cmds,         \* the artifact each started bridge process belonged to
    tries,        \* per artifact, the transfer attempts made and how they ended
    ret,          \* per artifact, what stream_* / adb_exec_out_to_file returned
    log,          \* the progress messages "[OK] ..." / "[!] ..." in order
    apk_listed,   \* pm list printed a package line
    handed,       \* the value extract_all returned to run_export
    exc,          \* the exception that left run_forensic_from_cfg, if any
    dfs,          \* the tables export_legible returned
    cancel_requested, \* the operator asked for the running image copy to stop
    call,         \* the processor function under study and its argument
    result,       \* what that function returned, or that it raised
    pipe,         \* one bridge process, its two pipes and the reader of them
    gui           \* the main window: its worker thread and what it has queued

vars == <<mode_root, opt, nalt, format_mode, phase, step, cand, xpc, nread, fs,
          procs, ncmd, cmds, tries, ret, log, apk_listed, handed, exc, dfs,
          cancel_requested, call, result, pipe, gui>>

\* the state of the processor functions studied on their own
legibleVars == <<call, result>>
\* no processor function is under study
NoCall == [fn |-> "none"]
NoResult == [done |-> FALSE, raised |-> FALSE, val |-> <<>>]

\* the state of the transfer and of the main window studied on their own
studyVars == <<pipe, gui>>
\* no transfer and no window is under study
NoPipe == [pc |-> "none"]
NoGui == [thread |-> "none"]

\* what a run leaves alone while extract_all is working
exportVars == <<handed, exc, dfs>>
\* what never changes after the configuration was read
cfgVars == <<mode_root, opt, nalt, format_mode>>

Cat == Catalog(mode_root)
Cur == Cat[step]

\* Active with the `if opt.<flag>:` tests left out
ActiveWhateverTheFlag(e) == e.kind = "apk" => apk_listed

\* `if opt.<flag>:` in extract_all and its sub-extractors; the apk loop runs
\* once per package line of pm list
Active(e) ==
    /\ (IF e.flag = "always" THEN TRUE ELSE opt[e.flag])
    /\ (e.kind = "apk" => apk_listed)

\* candidates = [opt.userdata_block_path] + (opt.userdata_block_alt or [])
NCand(e) == IF e.kind = "stream_dd_image" THEN 1 + nalt ELSE e.ncand

\* the bytes candidate number c streams
CandByte(c) == <<"c1", "c2", "c3", "c4">>[c]

\* what a bridge command can print on stdout
RawOutputs == {<<>>, <<RowByte, BadByte, CR, LF>>}

\* what getprop and date print
DeviceProps == <<RowByte, CR, LF>>

\* what run_cmd can return: (returncode, stdout, stderr)
CmdResults ==
    {[rc |-> 0, out |-> o, err |-> <<>>] : o \in RawOutputs}
        \cup {[rc |-> 1, out |-> <<>>, err |-> <<ErrByte>>]}

\* the dumps the export reads (q() and _shell_to_file of the table views)
\* can come back empty; the other commands answer or fail
CmdResultsOf(e) ==
    IF e.id = "contacts.txt" THEN CmdResults
    ELSE {r \in CmdResults : r.rc = 0 => r.out # <<>>}

EmptyFs == [p \in Paths |-> NoFile]

Init ==
    /\ mode_root \in BOOLEAN
    /\ opt \in [Flags -> BOOLEAN]
    /\ \A f \in Flags :
          (f \notin (IF mode_root THEN RootFlags ELSE NoRootFlags)) => ~opt[f]
    /\ nalt \in 0..MaxAlt
    /\ (~(mode_root /\ opt["userdata_image"])) => nalt = 0
    /\ format_mode \in {"L", "C"}
    /\ phase = "start"
    /\ step = 1
    /\ cand = 1
    /\ xpc = "idle"
    /\ nread = 0
    /\ fs = EmptyFs
    /\ procs = {}
    /\ ncmd = 0
    /\ cmds = <<>>
    /\ tries = [a \in ArtifactIds |-> <<>>]
    /\ ret = [a \in ArtifactIds |-> "none"]
    /\ log = <<>>
    /\ apk_listed = FALSE
    /\ handed = "none"
    /\ exc = "none"
    /\ dfs = {}
    /\ cancel_requested = FALSE
    /\ call = NoCall
    /\ result = NoResult
    /\ pipe = NoPipe
    /\ gui = NoGui

(* ------------------- run_forensic_from_cfg: preamble -------------------- *)
\* analyzer.case_dir.mkdir(parents=True, exist_ok=True) and the same for
\* logs_dir: when base_dir is not a place a directory can be made in (a
\* component of it is a file, it is read-only) mkdir raises an OSError that
\* nothing catches
CreateCaseDirs ==
    /\ phase = "start"
    /\ \E valid \in BOOLEAN :
          IF valid
          THEN phase' = "detect" /\ exc' = exc
          ELSE phase' = "aborted" /\ exc' = "NotADirectoryError"
    /\ UNCHANGED <<cfgVars, step, cand, xpc, nread, fs, procs, ncmd, cmds,
                   tries, ret, log, apk_listed, handed, dfs,
                   cancel_requested, legibleVars, studyVars>>

\* analyzer.detect_and_log_device(): detect_device raises RuntimeError when
\* `adb devices` fails or lists no device; otherwise getprop and date are
\* saved in the logs directory
DetectDevice ==
    /\ UNCHANGED <<cancel_requested, legibleVars, studyVars>>
    /\ phase = "detect"
    /\ \E found \in BOOLEAN :
          IF found
          THEN /\ phase' = "acquire"
               /\ ncmd' = ncmd + 3
               /\ cmds' = cmds \o <<"device", "device", "device">>
               /\ fs' = [fs EXCEPT !["logs/getprop.txt"] = write_text(run_cmd_text(DeviceProps)),
                                !["logs/device_date.txt"] = write_text(run_cmd_text(DeviceProps))]
               /\ exc' = exc
          ELSE /\ phase' = "aborted"
               /\ ncmd' = ncmd + 1
               /\ cmds' = Append(cmds, "device")
               /\ fs' = fs
               /\ exc' = "RuntimeError"
    /\ UNCHANGED <<cfgVars, step, cand, xpc, nread, procs, tries, ret, log,
                   apk_listed, handed, dfs>>

(* ---------------------- extract_all: plain commands --------------------- *)
\* a step whose `if opt.<flag>` is false: nothing is run, nothing is written
SkipDisabled ==
    /\ UNCHANGED <<cancel_requested, legibleVars, studyVars>>
    /\ phase = "acquire" /\ xpc = "idle"
    /\ step <= Len(Cat)
    /\ ~Active(Cur)
    /\ step' = step + 1
    /\ UNCHANGED <<cfgVars, phase, cand, xpc, nread, fs, procs, ncmd, cmds,
                   tries, ret, log, apk_listed, exportVars>>

\* f"returncode={rc}"
RcText(rc) == IF rc = 0 THEN "returncode=0" ELSE "returncode=1"

\* the files one run_cmd step writes, by the kind of the step
CmdWrites(f, e, r) ==
    LET out == run_cmd_text(r.out)
        err == run_cmd_text(r.err)
    IN  CASE e.kind = "verify_root" ->
               [f EXCEPT ![e.dest] = write_text(out \o <<LF>> \o err)]
          [] e.kind = "query" ->
               [f EXCEPT ![e.dest] = write_text(out),
                         ![e.errlog] = write_text(err)]
          [] e.kind = "shell_to_file" ->
               [f EXCEPT ![e.dest] = write_text(out),
                         ![e.errlog] = IF err # <<>> THEN write_text(err)
                                       ELSE <<RcText(r.rc)>>]
          [] e.kind = "pm_list" ->
               [f EXCEPT ![e.dest] = write_text(out),
                         ![e.errlog] = IF err # <<>> THEN write_text(err) ELSE @]
          [] e.kind = "bugreport" ->
               [f EXCEPT ![e.dest] = IF r.rc = 0 THEN <<ZipByte, BadByte>> ELSE @,
                         ![e.errlog] = <<RcText(r.rc)>> \o write_text(out) \o write_text(err)]

\* the success message logged on both exits of the loop
StatusAlwaysOK(ok) == "OK"

\* " [OK] ..." or " [!] ...": the message logged for an outcome
StatusOf(ok) == IF ok THEN "OK" ELSE "FAIL"

\* what a plain-command step logs about its outcome: verify_root warns when
\* "uid=0" is not in the output, extract_bugreport logs "[OK]" when rc == 0
\* and the zip exists and "[!]" otherwise; q() and _shell_to_file log nothing
CmdLogs(f, e, r) ==
    CASE e.kind = "verify_root" ->
             IF run_cmd_text(r.out) = <<>>
             THEN <<[art |-> e.id, status |-> "WARN"]>> ELSE <<>>
      [] e.kind = "bugreport" ->
             <<[art |-> e.id,
                status |-> StatusOf(r.rc = 0 /\ f[e.dest] # NoFile)]>>
      [] OTHER -> <<>>

\* verify_root, q() of extract_logical_views, _shell_to_file, the pm list of
\* extract_apks and extract_bugreport: one blocking run_cmd, then the writes
RunCmdStep ==
    /\ UNCHANGED <<cancel_requested, legibleVars, studyVars>>
    /\ phase = "acquire" /\ xpc = "idle"
    /\ step <= Len(Cat)
    /\ Active(Cur)
    /\ Cur.kind \in CmdKinds
    /\ \E r \in CmdResultsOf(Cur) :
          /\ fs' = CmdWrites(fs, Cur, r)
          /\ log' = log \o CmdLogs(CmdWrites(fs, Cur, r), Cur, r)
          /\ apk_listed' = IF Cur.kind = "pm_list"
                           THEN RowCount(run_cmd_text(r.out), TRUE) > 0
                           ELSE apk_listed
    /\ ncmd' = ncmd + 1
    /\ cmds' = Append(cmds, Cur.id)
    /\ step' = step + 1
    /\ UNCHANGED <<cfgVars, phase, cand, xpc, nread, procs, tries, ret,
                   exportVars>>

(* ------------------------- adb_exec_out_to_file ------------------------- *)
\* open(dest_file, "ab"): bytes already in the destination are kept
open_ab(content) == IF content = NoFile THEN <<>> ELSE content

\* open(dest_file, "wb"): the destination is created or truncated
open_wb(content) == <<>>

\* p.communicate(): waits until the bridge process has exited
communicate(ps, p) == ps \ {p}

\* the result test without the return code
exec_out_ok_any_rc(rc, content) == content # NoFile /\ Len(content) > 0

\* `p.returncode == 0 and dest_file.exists() and dest_file.stat().st_size > 0`
exec_out_ok(rc, content) == rc = 0 /\ content # NoFile /\ Len(content) > 0

\* the else branch: execout_err_<name>.txt receives the stderr of the process
write_execout_err(f, name, err) == [f EXCEPT ![ExecoutErr(name)] = err]

\* the except branch: execout_exc_<name>.txt receives str(e)
write_execout_exc(f, name) == [f EXCEPT ![ExecoutExc(name)] = <<"str(e)">>]

(* --------------- stream_file / stream_tar_dir / stream_dd_image --------- *)
\* a loop that gives up after its first candidate
NextCandidateNever(ok, c, n) == FALSE

\* `for src in src_candidates`: another candidate is tried after a failure
NextCandidate(ok, c, n) == ~ok /\ c < n

\* extract_all left at the first artifact that failed
AfterArtifactStopOnFailure(s, ok) == IF ok THEN s + 1 ELSE Len(Cat) + 1

\* extract_all goes on with the step after the current one
AfterArtifact(s, ok) == s + 1

\* what stream_* does with the result of one adb_exec_out_to_file call
StreamNext(ok) ==
    IF NextCandidate(ok, cand, NCand(Cur))
    THEN /\ cand' = cand + 1
         /\ UNCHANGED <<ret, log, step>>
    ELSE /\ cand' = 1
         /\ ret' = [ret EXCEPT ![Cur.id] = IF ok THEN "true" ELSE "false"]
         /\ log' = Append(log, [art |-> Cur.id, status |-> StatusOf(ok)])
         /\ step' = AfterArtifact(step, ok)

\* an except clause that does not match what Popen raises
except_nothing(e) == FALSE

\* `except Exception as e:` of adb_exec_out_to_file catches what Popen raises
except_Exception(e) == TRUE

\* open the destination and start the bridge process; when Popen raises the
\* except branch runs and the call returns False
StartAttempt ==
    /\ UNCHANGED <<cancel_requested, legibleVars, studyVars>>
    /\ phase = "acquire" /\ xpc = "idle"
    /\ step <= Len(Cat)
    /\ Active(Cur)
    /\ Cur.kind \in StreamKinds
    /\ \E spawned \in BOOLEAN :
          IF spawned
          THEN /\ fs' = [fs EXCEPT ![Cur.dest] = open_wb(@)]
               /\ ncmd' = ncmd + 1
               /\ cmds' = Append(cmds, Cur.id)
               /\ procs' = procs \cup {ncmd + 1}
               /\ xpc' = "reading"
               /\ nread' = 0
               /\ UNCHANGED <<step, cand, tries, ret, log, phase, exc>>
          ELSE IF except_Exception("OSError")
          THEN /\ fs' = write_execout_exc([fs EXCEPT ![Cur.dest] = open_wb(@)],
                                          Cur.errlog)
               /\ tries' = [tries EXCEPT ![Cur.id] =
                               Append(@, [cand |-> cand, spawned |-> FALSE,
                                          raised |-> TRUE, rc |-> 1, n |-> 0])]
               /\ StreamNext(FALSE)
               /\ UNCHANGED <<ncmd, cmds, procs, xpc, nread, phase, exc>>
          ELSE /\ fs' = [fs EXCEPT ![Cur.dest] = open_wb(@)]
               /\ tries' = [tries EXCEPT ![Cur.id] =
                               Append(@, [cand |-> cand, spawned |-> FALSE,
                                          raised |-> TRUE, rc |-> 1, n |-> 0])]
               /\ phase' = "aborted"
               /\ exc' = "OSError"
               /\ UNCHANGED <<ncmd, cmds, procs, xpc, nread, step, cand, ret, log>>
    /\ UNCHANGED <<cfgVars, apk_listed, handed, dfs>>

\* the operator asks for the image copy in flight to be stopped. Nothing in
\* AnalysisWorker, run_forensic_from_cfg, stream_dd_image or
\* adb_exec_out_to_file takes or reads such a request: it changes nothing
\* the transfer looks at
RequestCancel ==
    /\ phase = "acquire" /\ xpc = "reading"
    /\ Cur.kind = "stream_dd_image"
    /\ ~cancel_requested
    /\ cancel_requested' = TRUE
    /\ UNCHANGED <<cfgVars, phase, step, cand, xpc, nread, fs, procs, ncmd,
                   cmds, tries, ret, log, apk_listed, exportVars, legibleVars,
                   studyVars>>

\* one round of `for chunk in iter(lambda: p.stdout.read(1024 * 1024), b"")`
ReadChunk ==
    /\ UNCHANGED <<cancel_requested, legibleVars, studyVars>>
    /\ phase = "acquire" /\ xpc = "reading"
    /\ nread < MaxChunks
    /\ fs' = [fs EXCEPT ![Cur.dest] = Append(@, CandByte(cand))]
    /\ nread' = nread + 1
    /\ UNCHANGED <<cfgVars, phase, step, cand, xpc, procs, ncmd, cmds, tries,
                   ret, log, apk_listed, exportVars>>

\* f.write(chunk) raises (the disk is full, the file is too large for the
\* file system): the with block closes the destination, the except branch
\* writes its diagnostic and returns False; p.communicate() is not reached,
\* so the bridge process is left as it is
WriteChunkRaises ==
    /\ UNCHANGED <<cancel_requested, legibleVars, studyVars>>
    /\ phase = "acquire" /\ xpc = "reading"
    /\ nread < MaxChunks
    /\ tries' = [tries EXCEPT ![Cur.id] =
                    Append(@, [cand |-> cand, spawned |-> TRUE,
                               raised |-> TRUE, rc |-> 1, n |-> nread])]
    /\ procs' = procs
    /\ xpc' = "idle"
    /\ nread' = 0
    /\ IF except_Exception("OSError")
       THEN /\ fs' = write_execout_exc(fs, Cur.errlog)
            /\ StreamNext(FALSE)
            /\ UNCHANGED <<phase, exc>>
       ELSE /\ phase' = "aborted"
            /\ exc' = "OSError"
            /\ UNCHANGED <<fs, step, cand, ret, log>>
    /\ UNCHANGED <<cfgVars, ncmd, cmds, apk_listed, handed, dfs>>

\* end of stream: communicate() reaps the process, the result is computed,
\* the diagnostic is written on failure and the candidate loop goes on
FinishAttempt ==
    /\ UNCHANGED <<cancel_requested, legibleVars, studyVars>>
    /\ phase = "acquire" /\ xpc = "reading"
    /\ \E rc \in {0, 1} :
          LET ok == exec_out_ok(rc, fs[Cur.dest])
              err == IF rc = 0 THEN <<>> ELSE <<ErrByte>>
          IN  /\ fs' = IF ok THEN fs ELSE write_execout_err(fs, Cur.errlog, err)
              /\ tries' = [tries EXCEPT ![Cur.id] =
                              Append(@, [cand |-> cand, spawned |-> TRUE,
                                         raised |-> FALSE, rc |-> rc,
                                         n |-> nread])]
              /\ StreamNext(ok)
    /\ procs' = communicate(procs, ncmd)
    /\ xpc' = "idle"
    /\ nread' = 0
    /\ UNCHANGED <<cfgVars, phase, ncmd, cmds, apk_listed, exportVars>>

\* `return self.root_logical` / `return self.nr_logical`
ExtractAllReturn ==
    /\ UNCHANGED <<cancel_requested, legibleVars, studyVars>>
    /\ phase = "acquire" /\ xpc = "idle"
    /\ step = Len(Cat) + 1
    /\ handed' = IF mode_root THEN "root/logical" ELSE "noroot/logical"
    /\ phase' = "export"
    /\ UNCHANGED <<cfgVars, step, cand, xpc, nread, fs, procs, ncmd, cmds,
                   tries, ret, log, apk_listed, exc, dfs>>

(* ------------------------------ run_export ------------------------------ *)
\* the manifest of copy_raw_files: names looked up in logical_dir and in
\* logical_dir.parent / "system"
logical_names == <<"contacts.txt", "sms.txt">>
system_names == <<"dumpsys_wifi.txt", "bugreport.zip">>

\* logical_dir.parent / "system"
sys_dir(logical_dir) ==
    IF logical_dir = "root/logical" THEN "root/system" ELSE "noroot/system"

\* raw_dir / name, with raw_dir = case_dir / "export" / "raw"
raw_dst(logical_dir, name) == "export/raw/" \o name

\* src.suffix.lower() == ".zip"
is_zip(name) == name = "bugreport.zip"

\* a move instead of a copy: the source is gone afterwards
_move_file(f, src, dst) ==
    IF f[src] = NoFile THEN f
    ELSE [f EXCEPT ![dst] = write_text(read_text_safe(f[src])), ![src] = NoFile]

\* _copy_file: nothing when the source is absent, else the text of the
\* source is read and written again
_copy_file(f, src, dst) ==
    IF f[src] = NoFile THEN f
    ELSE [f EXCEPT ![dst] = write_text(read_text_safe(f[src]))]

\* dst.write_bytes(src.read_bytes()) when the source exists
copy_binary(f, src, dst) ==
    IF f[src] = NoFile THEN f ELSE [f EXCEPT ![dst] = f[src]]

copy_one(f, dir, logical_dir, name) ==
    LET src == dir \o "/" \o name
        dst == raw_dst(logical_dir, name)
    IN  IF is_zip(name) THEN copy_binary(f, src, dst) ELSE _copy_file(f, src, dst)

RECURSIVE copy_names(_, _, _, _)
copy_names(f, dir, logical_dir, names) ==
    IF names = <<>> THEN f
    ELSE copy_names(copy_one(f, dir, logical_dir, Head(names)), dir,
                    logical_dir, Tail(names))

copy_raw_files(f, logical_dir) ==
    copy_names(copy_names(f, logical_dir, logical_dir, logical_names),
               sys_dir(logical_dir), logical_dir, system_names)

\* rows load_sms / load_contactos build from a dump: one per marker line
rows_of(f, logical_dir, name) ==
    RowCount(read_text_safe(f[logical_dir \o "/" \o name]), TRUE)

\* ForensicDataProcessor.load_all: a table is kept when it is not empty
load_all(f, logical_dir) ==
    {k \in {"sms", "contactos"} :
        rows_of(f, logical_dir, IF k = "sms" THEN "sms.txt" ELSE "contacts.txt") > 0}

\* df.to_csv: a header line and one line per row
csv_of(n) == <<"header">> \o [i \in 1..n |-> "row"]

\* export_csv_legible: sms gets its file and its per-number summary, every
\* other table <key>.csv
export_csv_legible(f, logical_dir, tables) ==
    LET f1 == IF "sms" \in tables
              THEN [f EXCEPT !["export/legible/sms_legible.csv"] =
                                 csv_of(rows_of(f, logical_dir, "sms.txt")),
                             !["export/legible/sms_resumen_por_numero.csv"] =
                                 csv_of(1)]
              ELSE f
    IN  IF "contactos" \in tables
        THEN [f1 EXCEPT !["export/legible/contactos.csv"] =
                            csv_of(rows_of(f, logical_dir, "contacts.txt"))]
        ELSE f1

\* exportacion.copy_raw_files(logical_dir, raw_dir)
RunExportCopyRaw ==
    /\ UNCHANGED <<cancel_requested, legibleVars, studyVars>>
    /\ phase = "export"
    /\ fs' = copy_raw_files(fs, handed)
    /\ phase' = IF format_mode = "L" THEN "legible" ELSE "done"
    /\ UNCHANGED <<cfgVars, step, cand, xpc, nread, procs, ncmd, cmds, tries,
                   ret, log, apk_listed, handed, exc, dfs>>

\* dfs = exportacion.export_legible(logical_dir, legible_dir)
RunExportLegible ==
    /\ UNCHANGED <<cancel_requested, legibleVars, studyVars>>
    /\ phase = "legible"
    /\ dfs' = load_all(fs, handed)
    /\ fs' = export_csv_legible(fs, handed, load_all(fs, handed))
    /\ phase' = "excel"
    /\ UNCHANGED <<cfgVars, step, cand, xpc, nread, procs, ncmd, cmds, tries,
                   ret, log, apk_listed, handed, exc>>

\* a build whose exceptions nothing catches
build_except_nothing(e) == FALSE

\* `except Exception as e:` around the writer of ForensicExcelReport.build
build_except_Exception(e) == TRUE

\* the workbook file after the with block of build: every sheet and the
\* summary when nothing was raised; after an exception what close() saved
\* of the sheets written so far, or no file when it could save nothing
xlsx_after(f, tables, outcome) ==
    CASE outcome = "built" ->
             [f EXCEPT !["export/resumen_forense.xlsx"] =
                 <<"RESUMEN">> \o [i \in 1..Cardinality(tables) |-> "sheet"]]
      [] outcome = "partial" ->
             [f EXCEPT !["export/resumen_forense.xlsx"] = <<"sheet">>]
      [] outcome = "nothing" -> f

\* exportacion.export_excel_resumen(dfs, excel_path): nothing without
\* tables; a failure of the writer is caught and printed
RunExportExcel ==
    /\ UNCHANGED <<cancel_requested, legibleVars, studyVars>>
    /\ phase = "excel"
    /\ \E outcome \in {"built", "partial", "nothing"} :
          /\ fs' = IF dfs # {} THEN xlsx_after(fs, dfs, outcome) ELSE fs
          /\ IF dfs # {} /\ outcome # "built" /\ ~build_except_Exception("ValueError")
             THEN phase' = "aborted" /\ exc' = "ValueError"
             ELSE phase' = "done" /\ exc' = exc
    /\ UNCHANGED <<cfgVars, step, cand, xpc, nread, procs, ncmd, cmds, tries,
                   ret, log, apk_listed, handed, dfs>>

(* --------------------------- specifications ----------------------------- *)
Next ==
    \/ CreateCaseDirs
    \/ DetectDevice
    \/ SkipDisabled
    \/ RunCmdStep
    \/ StartAttempt
    \/ ReadChunk
    \/ RequestCancel
    \/ WriteChunkRaises
    \/ FinishAttempt
    \/ ExtractAllReturn
    \/ RunExportCopyRaw
    \/ RunExportLegible
    \/ RunExportExcel

Spec == Init /\ [][Next]_vars

\* the contents a raw dump offered to the stand-alone export can have
RECURSIVE ByteSeqs(_)
ByteSeqs(n) ==
    IF n = 0 THEN {<<>>}
    ELSE ByteSeqs(n - 1) \cup {Append(q, b) : q \in ByteSeqs(n - 1), b \in Byte}

\* exportar_legible / main of exportacion.py run on an existing case
\* directory: the raw store is whatever is on disk
InitExport ==
    /\ mode_root = FALSE
    /\ opt = [f \in Flags |-> FALSE]
    /\ nalt = 0
    /\ format_mode \in {"L", "C"}
    /\ phase = "export"
    /\ step = 1
    /\ cand = 1
    /\ xpc = "idle"
    /\ nread = 0
    /\ \E c \in ByteSeqs(MaxLen) \cup {NoFile},
          z \in {NoFile, <<ZipByte, BadByte>>, <<CR, LF>>},
          w \in {NoFile, <<RowByte, LF>>} :
          fs = [EmptyFs EXCEPT !["noroot/logical/contacts.txt"] = c,
                               !["noroot/system/bugreport.zip"] = z,
                               !["noroot/system/dumpsys_wifi.txt"] = w]
    /\ procs = {}
    /\ ncmd = 0
    /\ cmds = <<>>
    /\ tries = [a \in ArtifactIds |-> <<>>]
    /\ ret = [a \in ArtifactIds |-> "none"]
    /\ log = <<>>
    /\ apk_listed = FALSE
    /\ handed = "noroot/logical"
    /\ exc = "none"
    /\ dfs = {}
    /\ cancel_requested = FALSE
    /\ call = NoCall
    /\ result = NoResult
    /\ pipe = NoPipe
    /\ gui = NoGui

NextExport ==
    \/ RunExportCopyRaw
    \/ RunExportLegible
    \/ RunExportExcel

SpecExport == InitExport /\ [][NextExport]_vars

(* ------------------- ForensicDataProcessor: timestamps ------------------ *)
\* rows of a column handed to a decoder
MaxCol == 2

\* the seconds of 2024-12-25T00:00:00Z and texts made from them
T10 == <<"1", "7", "3", "5", "0", "8", "4", "8", "0", "0">>
T9 == SubSeq(T10, 1, 9)
T13 == T10 \o <<"0", "0", "0">>
T14 == T13 \o <<"0">>

\* the column values the decoders are studied on: text without digits, a
\* run too short, the seconds and the milliseconds of one instant, a run of
\* 14 digits, seconds past the range of datetime64[ns], a run inside text
TsValues ==
    { <<>>,
      <<"a", "b", "c">>,
      T9,
      T10,
      T13,
      T14,
      <<"9", "9", "9", "9", "9", "9", "9", "9", "9", "9">>,
      <<"0", "0", "0", "0", "0", "0", "0", "0", "0", "0">>,
      <<"x">> \o T10 \o <<",">> }

RECURSIVE Columns(_)
Columns(n) ==
    IF n = 0 THEN {<<>>}
    ELSE Columns(n - 1) \cup {Append(c, v) : c \in Columns(n - 1), v \in TsValues}

Digits == <<"0", "1", "2", "3", "4", "5", "6", "7", "8", "9">>
IsDigit(c) == \E d \in DOMAIN Digits : Digits[d] = c
DigitVal(c) == (CHOOSE d \in DOMAIN Digits : Digits[d] = c) - 1

\* the missing value of a float column, and the missing instant
NaN == <<"NaN">>
NaT == [kind |-> "NaT", ms |-> <<>>]

\* the instant a number of milliseconds after the epoch, UTC
Instant(ms) == [kind |-> "instant", ms |-> ms]

\* length of the run of digits that starts at position i of s
RECURSIVE DigitRun(_, _)
DigitRun(s, i) ==
    IF i > Len(s) \/ ~IsDigit(s[i]) THEN 0 ELSE 1 + DigitRun(s, i + 1)

\* Series.str.extract(r'(\d{lo,hi})')[0] on one value: the first place
\* where lo digits follow each other, and from there as many digits as the
\* pattern allows (hi = 0: no upper limit); NaN without a match
RECURSIVE str_extract(_, _, _, _)
str_extract(s, i, lo, hi) ==
    IF i > Len(s) THEN NaN
    ELSE IF DigitRun(s, i) >= lo
         THEN LET run == DigitRun(s, i)
                  n == IF hi > 0 /\ run > hi THEN hi ELSE run
              IN  SubSeq(s, i, i + n - 1)
         ELSE str_extract(s, i + 1, lo, hi)

\* a number as its decimal digits without leading zeros
RECURSIVE Canon(_)
Canon(d) ==
    IF Len(d) > 1 /\ Head(d) = "0" THEN Canon(Tail(d)) ELSE d

\* pd.to_numeric(s, errors="coerce") on one extracted value
to_numeric(x) == IF x = NaN THEN NaN ELSE Canon(x)

\* a > b for two numbers in digits
RECURSIVE DigitsGreater(_, _)
DigitsGreater(a, b) ==
    IF Len(a) # Len(b) THEN Len(a) > Len(b)
    ELSE IF a = <<>> THEN FALSE
    ELSE IF Head(a) # Head(b) THEN DigitVal(Head(a)) > DigitVal(Head(b))
    ELSE DigitsGreater(Tail(a), Tail(b))

\* Series.max(skipna=True): the largest number of the column, NaN if none
RECURSIVE series_max(_)
series_max(col) ==
    IF col = <<>> THEN NaN
    ELSE LET m == series_max(Tail(col))
         IN  IF Head(col) = NaN THEN m
             ELSE IF m = NaN THEN Head(col)
             ELSE IF DigitsGreater(Head(col), m) THEN Head(col) ELSE m

\* 1e11, and the last millisecond datetime64[ns] can hold
E11 == <<"1", "0", "0", "0", "0", "0", "0", "0", "0", "0", "0", "0">>
MaxMs == <<"9", "2", "2", "3", "3", "7", "2", "0", "3", "6", "8", "5", "4">>

\* pd.to_datetime(..., errors="raise"): a value out of range raises
to_datetime_raise(ms) ==
    IF ms = NaN THEN NaT
    ELSE IF DigitsGreater(ms, MaxMs)
         THEN [kind |-> "OutOfBoundsDatetime", ms |-> <<>>]
    ELSE Instant(ms)

\* pd.to_datetime(seconds, unit="s", origin="unix", errors="coerce") with
\* the seconds given in milliseconds: the instant, or NaT when the value is
\* missing or out of the range of datetime64[ns]
to_datetime_coerce(ms) ==
    IF ms = NaN THEN NaT
    ELSE IF DigitsGreater(ms, MaxMs) THEN NaT
    ELSE Instant(ms)

\* seconds in milliseconds
Times1000(v) == IF v = NaN THEN NaN ELSE Canon(v \o <<"0", "0", "0">>)

\* `if s_num.max(skipna=True) and s_num.max(skipna=True) > 1e11`: one
\* factor for the whole column, taken from its largest value
factor_ms(s_num, v) ==
    LET m == series_max(s_num)
    IN  m # NaN /\ m # <<"0">> /\ DigitsGreater(m, E11)

\* a decoder result as what the caller sees: the column, or the exception
Outcome(col) ==
    IF \E i \in DOMAIN col : col[i].kind = "OutOfBoundsDatetime"
    THEN [done |-> TRUE, raised |-> TRUE, val |-> <<>>]
    ELSE [done |-> TRUE, raised |-> FALSE, val |-> col]

\* ForensicDataProcessor._epoch_to_datetime_generic
_epoch_to_datetime_generic(series) ==
    LET s_num == [i \in DOMAIN series |->
                      to_numeric(str_extract(series[i], 1, 10, 13))]
    IN  [i \in DOMAIN series |->
            to_datetime_coerce(IF factor_ms(s_num, s_num[i]) THEN s_num[i]
                               ELSE Times1000(s_num[i]))]

\* ForensicDataProcessor._epoch_ms_to_datetime
_epoch_ms_to_datetime(series) ==
    LET s_num == [i \in DOMAIN series |->
                      to_numeric(str_extract(series[i], 1, 10, 0))]
    IN  [i \in DOMAIN series |-> to_datetime_coerce(s_num[i])]

\* a column is decoded by the decoder of the normalizers
EpochToDatetimeGeneric ==
    /\ call.fn = "_epoch_to_datetime_generic"
    /\ ~result.done
    /\ result' = Outcome(_epoch_to_datetime_generic(call.arg))
    /\ UNCHANGED <<cfgVars, phase, step, cand, xpc, nread, fs, procs, ncmd,
                   cmds, tries, ret, log, apk_listed, exportVars,
                   cancel_requested, call, studyVars>>

\* a column is decoded by the decoder of load_sms, load_calllog and
\* load_calendario
EpochMsToDatetime ==
    /\ call.fn = "_epoch_ms_to_datetime"
    /\ ~result.done
    /\ result' = Outcome(_epoch_ms_to_datetime(call.arg))
    /\ UNCHANGED <<cfgVars, phase, step, cand, xpc, nread, fs, procs, ncmd,
                   cmds, tries, ret, log, apk_listed, exportVars,
                   cancel_requested, call, studyVars>>

(* ------------------- ForensicDataProcessor: Row: lines ------------------ *)
\* characters of a line after its record marker
MaxLine == 5

\* "Row: ", the record marker the loaders test with startswith("Row:")
RowMarker == <<"R", "o", "w", ":", " ">>

\* what a dump line is made of after the marker: two word characters, the
\* equals sign, the blank and a separator
LineChars == {"k", "v", "=", " ", ","}

RECURSIVE LineBodies(_)
LineBodies(n) ==
    IF n = 0 THEN {<<>>}
    ELSE LineBodies(n - 1)
             \cup {Append(b, c) : b \in LineBodies(n - 1), c \in LineChars}

\* \w and \s on the characters of the model
IsWord(c) ==
    \/ c \in {"a", "b", "d", "e", "i", "k", "m", "n", "o", "p", "r", "s", "t",
              "u", "v", "w", "y", "R", "_"}
    \/ IsDigit(c)
IsSpace(c) == c = " "

\* the position after the run of word characters that starts at i
RECURSIVE WordEnd(_, _)
WordEnd(s, i) ==
    IF i > Len(s) \/ ~IsWord(s[i]) THEN i ELSE WordEnd(s, i + 1)

\* (?=\s\w+=|$) at position p
lookahead(s, p) ==
    \/ p = Len(s) + 1
    \/ /\ p <= Len(s) /\ IsSpace(s[p])
       /\ p + 1 <= Len(s) /\ IsWord(s[p + 1])
       /\ WordEnd(s, p + 1) <= Len(s)
       /\ s[WordEnd(s, p + 1)] = "="

\* ([^=]*?) from v0: the first position p at which the lookahead holds with
\* no equals sign in between; 0 when there is none
RECURSIVE value_end(_, _, _)
value_end(s, v0, p) ==
    IF p > Len(s) + 1 THEN 0
    ELSE IF p > v0 /\ s[p - 1] = "=" THEN 0
    ELSE IF lookahead(s, p) THEN p
    ELSE value_end(s, v0, p + 1)

\* FIELD_RE matched at position pos: (\w+)=([^=]*?)(?=\s\w+=|$)
match_at(s, pos) ==
    LET e == WordEnd(s, pos)
        p == IF e > pos /\ e <= Len(s) /\ s[e] = "="
             THEN value_end(s, e + 1, e + 1) ELSE 0
    IN  IF p = 0 THEN [ok |-> FALSE, key |-> <<>>, val |-> <<>>, end |-> pos]
        ELSE [ok |-> TRUE, key |-> SubSeq(s, pos, e - 1),
              val |-> SubSeq(s, e + 1, p - 1), end |-> p]

\* FIELD_RE.findall(line): the matches from left to right, each search
\* starting where the last match ended
RECURSIVE findall(_, _)
findall(s, pos) ==
    IF pos > Len(s) THEN <<>>
    ELSE LET m == match_at(s, pos)
         IN  IF m.ok THEN <<[key |-> m.key, val |-> m.val]>> \o findall(s, m.end)
             ELSE findall(s, pos + 1)

\* str.lstrip() and str.rstrip()
RECURSIVE lstrip(_)
lstrip(v) == IF v # <<>> /\ IsSpace(Head(v)) THEN lstrip(Tail(v)) ELSE v
RECURSIVE rstrip(_)
rstrip(v) ==
    IF v # <<>> /\ IsSpace(v[Len(v)]) THEN rstrip(SubSeq(v, 1, Len(v) - 1)) ELSE v

\* str.strip()
strip(v) == rstrip(lstrip(v))

\* str.rstrip(",;")
RECURSIVE rstrip_sep(_)
rstrip_sep(v) ==
    IF v # <<>> /\ v[Len(v)] \in {",", ";"}
    THEN rstrip_sep(SubSeq(v, 1, Len(v) - 1)) ELSE v

\* v.strip().rstrip(",;")
clean_value(v) == rstrip_sep(strip(v))

\* a dict as the sequence of its items in insertion order: d[k] = v
dict_set(d, k, v) ==
    IF \E i \in DOMAIN d : d[i].key = k
    THEN [i \in DOMAIN d |-> IF d[i].key = k THEN [key |-> k, val |-> v] ELSE d[i]]
    ELSE Append(d, [key |-> k, val |-> v])

\* {k: v.strip().rstrip(",;") for k, v in matches}
RECURSIVE dict_of(_, _)
dict_of(d, matches) ==
    IF matches = <<>> THEN d
    ELSE dict_of(dict_set(d, Head(matches).key, clean_value(Head(matches).val)),
                 Tail(matches))

\* ForensicDataProcessor._parse_row_fields
_parse_row_fields(line) == dict_of(<<>>, findall(line, 1))

\* f.get(k, default)
dict_get(d, k, default) ==
    IF \E i \in DOMAIN d : d[i].key = k
    THEN d[CHOOSE i \in DOMAIN d : d[i].key = k].val
    ELSE default

\* one line is parsed
ParseRowFields ==
    /\ call.fn = "_parse_row_fields"
    /\ ~result.done
    /\ result' = [done |-> TRUE, raised |-> FALSE,
                  val |-> _parse_row_fields(call.arg)]
    /\ UNCHANGED <<cfgVars, phase, step, cand, xpc, nread, fs, procs, ncmd,
                   cmds, tries, ret, log, apk_listed, exportVars,
                   cancel_requested, call, studyVars>>

(* --------------------- ForensicDataProcessor: load_sms ------------------ *)
\* lines of a dump handed to a loader
MaxRows == 2

\* a record line without any field, two record lines with their fields and
\* a line that is no record
MalformedLine == <<"R", "o", "w", ":", " ", "0">>
GoodLine == <<"R", "o", "w", ":", " ", "1", " ", "a", "d", "d", "r", "e", "s", "s", "=", "7", " ", "d", "a", "t", "e", "=", "1", "7", "3", "5", "0", "8", "4", "8", "0", "0", "0", "0", "0", " ", "t", "y", "p", "e", "=", "1", " ", "b", "o", "d", "y", "=", "k", " ", "v">>
OldLine == <<"R", "o", "w", ":", " ", "2", " ", "a", "d", "d", "r", "e", "s", "s", "=", "8", " ", "d", "a", "t", "e", "=", "1", "7", "3", "5", "0", "8", "4", "8", "0", "0", " ", "t", "y", "p", "e", "=", "9", " ", "b", "o", "d", "y", "=", "v">>
OtherLine == <<"x">>
DumpLines == {MalformedLine, GoodLine, OldLine, OtherLine}

RECURSIVE Dumps(_)
Dumps(n) ==
    IF n = 0 THEN {<<>>}
    ELSE Dumps(n - 1) \cup {Append(t, l) : t \in Dumps(n - 1), l \in DumpLines}

\* line.startswith("Row:")
startswith_Row(line) == Len(line) >= 4 /\ SubSeq(line, 1, 4) = SubSeq(RowMarker, 1, 4)

\* the rows load_sms collects: one dict per marker line, whatever was
\* parsed from it
RECURSIVE sms_rows(_)
sms_rows(lines) ==
    IF lines = <<>> THEN <<>>
    ELSE LET f == _parse_row_fields(Head(lines))
         IN  (IF startswith_Row(Head(lines))
              THEN <<[numero |-> dict_get(f, <<"a", "d", "d", "r", "e", "s", "s">>, <<>>),
                      fecha_epoch_ms |-> dict_get(f, <<"d", "a", "t", "e">>, <<>>),
                      tipo_codigo |-> dict_get(f, <<"t", "y", "p", "e">>, <<>>),
                      mensaje |-> dict_get(f, <<"b", "o", "d", "y">>, <<>>)]>>
              ELSE <<>>) \o sms_rows(Tail(lines))

\* tipo_map of load_sms with .fillna("DESCONOCIDO")
sms_tipo_descripcion(code) ==
    CASE code = <<"1">> -> "RECIBIDO (INBOX)"
      [] code = <<"2">> -> "ENVIADO (SENT)"
      [] code = <<"3">> -> "BORRADOR (DRAFT)"
      [] code = <<"4">> -> "OUTBOX"
      [] code = <<"5">> -> "ENVIANDO"
      [] code = <<"6">> -> "ENVIADO_FALLIDO"
      [] OTHER -> "DESCONOCIDO"

\* a sorts before b in sort_values("fecha_hora"): NaT goes last
fecha_before(a, b) ==
    /\ a.fecha_hora # NaT
    /\ b.fecha_hora = NaT \/ DigitsGreater(b.fecha_hora.ms, a.fecha_hora.ms)

\* df.sort_values("fecha_hora") on a frame this small: an insertion sort
RECURSIVE sort_insert(_, _)
sort_insert(sorted, r) ==
    IF sorted = <<>> THEN <<r>>
    ELSE IF fecha_before(r, Head(sorted)) THEN <<r>> \o sorted
    ELSE <<Head(sorted)>> \o sort_insert(Tail(sorted), r)

RECURSIVE sort_values(_)
sort_values(rows) ==
    IF rows = <<>> THEN <<>>
    ELSE sort_insert(sort_values(SubSeq(rows, 1, Len(rows) - 1)), rows[Len(rows)])

\* ForensicDataProcessor.load_sms on the lines of sms.txt
load_sms(lines) ==
    LET rows == sms_rows(lines)
        fecha == _epoch_ms_to_datetime([i \in DOMAIN rows |-> rows[i].fecha_epoch_ms])
    IN  sort_values([i \in DOMAIN rows |->
            [fecha_hora |-> fecha[i],
             numero |-> rows[i].numero,
             tipo_codigo |-> rows[i].tipo_codigo,
             tipo_descripcion |-> sms_tipo_descripcion(rows[i].tipo_codigo),
             mensaje |-> rows[i].mensaje]])

\* sms.txt is loaded
LoadSms ==
    /\ call.fn = "load_sms"
    /\ ~result.done
    /\ result' = [done |-> TRUE, raised |-> FALSE, val |-> load_sms(call.arg)]
    /\ UNCHANGED <<cfgVars, phase, step, cand, xpc, nread, fs, procs, ncmd,
                   cmds, tries, ret, log, apk_listed, exportVars,
                   cancel_requested, call, studyVars>>

(* -------------------- ForensicDataProcessor: load_calllog --------------- *)
\* record lines of calllog.txt: a received call, a code outside the table,
\* a code followed by a separator, a line without a code, a line that is
\* no record
CallIn == <<"R", "o", "w", ":", " ", "0", " ", "d", "a", "t", "e", "=", "1", "7", "3", "5", "0", "8", "4", "8", "0", "0", "0", "0", "0", " ", "t", "y", "p", "e", "=", "1", " ", "d", "u", "r", "a", "t", "i", "o", "n", "=", "5">>
CallUnmapped == <<"R", "o", "w", ":", " ", "1", " ", "t", "y", "p", "e", "=", "9", "9">>
CallMissed == <<"R", "o", "w", ":", " ", "2", " ", "t", "y", "p", "e", "=", "3", ",">>
CallNoType == <<"R", "o", "w", ":", " ", "3", " ", "d", "u", "r", "a", "t", "i", "o", "n", "=", "v">>
CallLines == {CallIn, CallUnmapped, CallMissed, CallNoType, OtherLine}

RECURSIVE CallDumps(_)
CallDumps(n) ==
    IF n = 0 THEN {<<>>}
    ELSE CallDumps(n - 1) \cup {Append(t, l) : t \in CallDumps(n - 1), l \in CallLines}

\* the rows load_calllog collects
RECURSIVE calllog_rows(_)
calllog_rows(lines) ==
    IF lines = <<>> THEN <<>>
    ELSE LET f == _parse_row_fields(Head(lines))
         IN  (IF startswith_Row(Head(lines))
              THEN <<[numero |-> dict_get(f, <<"n", "u", "m", "b", "e", "r">>, <<>>),
                      nombre_cache |-> dict_get(f, <<"n", "a", "m", "e">>, <<>>),
                      fecha_epoch_ms |-> dict_get(f, <<"d", "a", "t", "e">>, <<>>),
                      tipo_codigo |-> dict_get(f, <<"t", "y", "p", "e">>, <<>>),
                      duracion_seg |-> dict_get(f, <<"d", "u", "r", "a", "t", "i", "o", "n">>, <<>>)]>>
              ELSE <<>>) \o calllog_rows(Tail(lines))

\* the value Series.map leaves for a key the dict does not have
Missing == "<NA>"

\* df["tipo_codigo"].astype(str).map(tipo_llamada_map) on one value
tipo_llamada_map(code) ==
    CASE code = <<"1">> -> "ENTRANTE"
      [] code = <<"2">> -> "SALIENTE"
      [] code = <<"3">> -> "PERDIDA"
      [] code = <<"4">> -> "BUZON_VOZ"
      [] code = <<"5">> -> "RECHAZADA"
      [] code = <<"6">> -> "BLOQUEADA"
      [] code = <<"7">> -> "RESPONDIDA_EXTERNAMENTE"
      [] OTHER -> Missing

\* a column whose missing values are left alone
fillna_nothing(x, v) == x

\* Series.fillna(v) on one value
fillna(x, v) == IF x = Missing THEN v ELSE x

\* pd.to_numeric(dur.str.extract(r"(\d+)")[0], errors="coerce").fillna(0)
\* on one value (durations that fit Int64)
duracion(d) ==
    LET n == to_numeric(str_extract(d, 1, 1, 0))
    IN  IF n = NaN THEN <<"0">> ELSE n

\* ForensicDataProcessor.load_calllog on the lines of calllog.txt
load_calllog(lines) ==
    LET rows == calllog_rows(lines)
        fecha == _epoch_ms_to_datetime([i \in DOMAIN rows |-> rows[i].fecha_epoch_ms])
    IN  sort_values([i \in DOMAIN rows |->
            [fecha_hora |-> fecha[i],
             numero |-> rows[i].numero,
             nombre_cache |-> rows[i].nombre_cache,
             tipo_codigo |-> rows[i].tipo_codigo,
             tipo_descripcion |-> fillna(tipo_llamada_map(rows[i].tipo_codigo),
                                         "DESCONOCIDO"),
             duracion_seg |-> duracion(rows[i].duracion_seg)]])

\* calllog.txt is loaded
LoadCalllog ==
    /\ call.fn = "load_calllog"
    /\ ~result.done
    /\ result' = [done |-> TRUE, raised |-> FALSE, val |-> load_calllog(call.arg)]
    /\ UNCHANGED <<cfgVars, phase, step, cand, xpc, nread, fs, procs, ncmd,
                   cmds, tries, ret, log, apk_listed, exportVars,
                   cancel_requested, call, studyVars>>

(* ------------------- ForensicDataProcessor: normalizers ----------------- *)
\* columns of a CSV table handed to a normalizer
MaxColumns == 2

\* the header names the normalizers are studied on
RawNames ==
    {"chat_jid", "JID", "text", "timestamp", "ts", "extra", "Link", "title",
     "titulo"}

\* str.lower() on these names
lower(c) ==
    CASE c = "JID" -> "jid"
      [] c = "Link" -> "link"
      [] OTHER -> c

\* the headers a CSV can have: distinct names in any order (read_csv renames
\* a repeated name); each column remembers the raw name it came from
RECURSIVE Headers(_)
Headers(n) ==
    IF n = 0 THEN {<<>>}
    ELSE Headers(n - 1)
             \cup {Append(h, [name |-> c, raw |-> c]) :
                      h \in Headers(n - 1),
                      c \in RawNames}

DistinctHeaders(n) ==
    {h \in Headers(n) : \A i, j \in DOMAIN h : i # j => h[i].raw # h[j].raw}

\* x in a tuple
InSeq(x, t) == \E i \in DOMAIN t : t[i] = x

\* `name in df.columns`
HasCol(df, n) == \E i \in DOMAIN df : df[i].name = n

\* the columns of df that carry the label n
RECURSIVE ColsNamed(_, _)
ColsNamed(df, n) ==
    IF df = <<>> THEN <<>>
    ELSE (IF Head(df).name = n THEN <<Head(df)>> ELSE <<>>)
             \o ColsNamed(Tail(df), n)

\* df[name] = <computed column>: the column is replaced where it stands or
\* added at the end
set_column(df, n) ==
    IF HasCol(df, n)
    THEN [i \in DOMAIN df |->
             IF df[i].name = n THEN [name |-> n, raw |-> "derived"] ELSE df[i]]
    ELSE Append(df, [name |-> n, raw |-> "derived"])

\* [c for c in df.columns if c not in preferidas]
RECURSIVE labels_not_in(_, _)
labels_not_in(df, preferidas) ==
    IF df = <<>> THEN <<>>
    ELSE (IF InSeq(Head(df).name, preferidas) THEN <<>> ELSE <<Head(df).name>>)
             \o labels_not_in(Tail(df), preferidas)

\* [c for c in preferidas if c in df.columns]
RECURSIVE present_preferidas(_, _)
present_preferidas(df, preferidas) ==
    IF preferidas = <<>> THEN <<>>
    ELSE (IF HasCol(df, Head(preferidas)) THEN <<Head(preferidas)>> ELSE <<>>)
             \o present_preferidas(df, Tail(preferidas))

\* the column order without the columns that are not preferred
orden_preferidas_only(df, preferidas) == present_preferidas(df, preferidas)

\* orden = [c for c in preferidas if c in df.columns]
\*             + [c for c in df.columns if c not in preferidas]
orden(df, preferidas) ==
    present_preferidas(df, preferidas) \o labels_not_in(df, preferidas)

\* df[orden]: for every label of the list, the columns that carry it
RECURSIVE select_columns(_, _)
select_columns(df, labels) ==
    IF labels = <<>> THEN <<>>
    ELSE ColsNamed(df, Head(labels)) \o select_columns(df, Tail(labels))

\* the if/elif chain of _normalize_whatsapp_mensajes_df: canonical name
\* and the lower-case names renamed to it
WaAliases ==
    << [canon |-> "chat_id",
        names |-> <<"chat_jid", "key_remote_jid", "jid", "id_chat">>],
       [canon |-> "remitente",
        names |-> <<"remote_resource", "sender", "remitente">>],
       [canon |-> "mensaje", names |-> <<"data", "mensaje", "body", "text">>],
       [canon |-> "fecha_hora_raw",
        names |-> <<"timestamp_ms", "timestamp", "ts", "fecha">>] >>

WaPreferidas == <<"fecha_hora", "chat_id", "remitente", "mensaje">>

\* rename_map[c] of the loop `for c in df.columns`: the name of the first
\* branch whose tuple holds c.lower(), or c itself
RECURSIVE rename_by_chain(_, _)
rename_by_chain(c, chain) ==
    IF chain = <<>> THEN c
    ELSE IF InSeq(lower(c), Head(chain).names) THEN Head(chain).canon
    ELSE rename_by_chain(c, Tail(chain))

\* the first name of the tuple that is a column label, or "" for None
RECURSIVE first_in_columns(_, _)
first_in_columns(df, names) ==
    IF names = <<>> THEN ""
    ELSE IF HasCol(df, Head(names)) THEN Head(names)
    ELSE first_in_columns(df, Tail(names))

\* what a normalizer returns: the frame, or the exception it raised
Frame(df) == [done |-> TRUE, raised |-> FALSE, val |-> df]
Raised == [done |-> TRUE, raised |-> TRUE, val |-> <<>>]

\* ForensicDataProcessor._normalize_whatsapp_mensajes_df. df[ts_col] is a
\* DataFrame when two columns carry the label, and the decoder's `.str`
\* raises AttributeError on it
_normalize_whatsapp_mensajes_df(df) ==
    LET renamed == [i \in DOMAIN df |->
                       [name |-> rename_by_chain(df[i].name, WaAliases),
                        raw |-> df[i].raw]]
        ts_col == first_in_columns(renamed,
                      <<"fecha_hora_raw", "timestamp_ms", "timestamp", "ts">>)
    IN  IF ts_col # "" /\ Len(ColsNamed(renamed, ts_col)) > 1
        THEN Raised
        ELSE LET dated == IF ts_col # "" THEN set_column(renamed, "fecha_hora")
                          ELSE renamed
             IN  Frame(select_columns(dated, orden(dated, WaPreferidas)))

\* the pick() calls of _normalize_browser_history_df
BrowserAliases ==
    << [canon |-> "url", names |-> <<"url", "link", "direccion", "uri">>],
       [canon |-> "titulo", names |-> <<"title", "page_title", "titulo">>],
       [canon |-> "fecha_hora_raw",
        names |-> <<"timestamp", "time", "date", "last_visit_time", "visit_time">>],
       [canon |-> "visitas", names |-> <<"visit_count", "visits", "count">>] >>

BrowserPreferidas ==
    <<"fecha_hora", "url", "titulo", "visitas", "navegador", "fuente">>

\* lower_cols = {c.lower(): c for c in df.columns}: the last column whose
\* lower-case name is n, or "" when there is none
lower_cols(df, n) ==
    IF \E i \in DOMAIN df : lower(df[i].name) = n
    THEN df[CHOOSE i \in DOMAIN df :
                /\ lower(df[i].name) = n
                /\ \A j \in DOMAIN df : lower(df[j].name) = n => j <= i].name
    ELSE ""

\* pick(*names): the column of the first name found in lower_cols
RECURSIVE pick(_, _)
pick(df, names) ==
    IF names = <<>> THEN ""
    ELSE IF lower_cols(df, Head(names)) # "" THEN lower_cols(df, Head(names))
    ELSE pick(df, Tail(names))

\* rename_map built from the picks: the new label of column c
RECURSIVE rename_by_pick(_, _, _)
rename_by_pick(df, c, table) ==
    IF table = <<>> THEN c
    ELSE IF pick(df, Head(table).names) = c THEN Head(table).canon
    ELSE rename_by_pick(df, c, Tail(table))

\* ForensicDataProcessor._normalize_browser_history_df
_normalize_browser_history_df(df) ==
    LET renamed == [i \in DOMAIN df |->
                       [name |-> rename_by_pick(df, df[i].name, BrowserAliases),
                        raw |-> df[i].raw]]
        dated == IF HasCol(renamed, "fecha_hora_raw")
                 THEN set_column(renamed, "fecha_hora") ELSE renamed
        tagged == set_column(set_column(dated, "navegador"), "fuente")
    IN  Frame(select_columns(tagged, orden(tagged, BrowserPreferidas)))

\* a WhatsApp messages table is normalized
NormalizeWhatsapp ==
    /\ call.fn = "_normalize_whatsapp_mensajes_df"
    /\ ~result.done
    /\ result' = _normalize_whatsapp_mensajes_df(call.arg)
    /\ UNCHANGED <<cfgVars, phase, step, cand, xpc, nread, fs, procs, ncmd,
                   cmds, tries, ret, log, apk_listed, exportVars,
                   cancel_requested, call, studyVars>>

\* a browser history table is normalized
NormalizeBrowserHistory ==
    /\ call.fn = "_normalize_browser_history_df"
    /\ ~result.done
    /\ result' = _normalize_browser_history_df(call.arg)
    /\ UNCHANGED <<cfgVars, phase, step, cand, xpc, nread, fs, procs, ncmd,
                   cmds, tries, ret, log, apk_listed, exportVars,
                   cancel_requested, call, studyVars>>

(* ---------------- ForensicDataProcessor: merged CSV tables -------------- *)
\* two instants a millisecond apart and a text that is no timestamp
TsEarly == T13
TsLate == SubSeq(T13, 1, 12) \o <<"1">>
TsBad == <<"a", "b", "c">>

\* a CSV file of the case directory: missing, one that pd.read_csv cannot
\* parse (no bytes at all, a broken quote), or its rows (columns url and
\* timestamp; the header alone when there is no row)
NoCsv == [exists |-> FALSE, parses |-> FALSE, rows |-> <<>>]
BadCsv == [exists |-> TRUE, parses |-> FALSE, rows |-> <<>>]
Csv(rows) == [exists |-> TRUE, parses |-> TRUE, rows |-> rows]
CsvRow(url, ts) == [url |-> url, timestamp |-> ts]

\* the files the loaders are studied on
CsvFiles ==
    { NoCsv,
      BadCsv,
      Csv(<<>>),
      Csv(<<CsvRow("u1", TsLate)>>),
      Csv(<<CsvRow("u1", TsLate), CsvRow("u2", TsEarly)>>),
      Csv(<<CsvRow("u1", TsBad), CsvRow("u2", TsEarly)>>) }

\* ForensicDataProcessor._load_csv: an empty frame for a missing file and,
\* by its `except Exception`, for one that cannot be parsed
_load_csv(file) == IF file.exists /\ file.parses THEN file.rows ELSE <<>>

\* _normalize_browser_history_df on the rows of a url,timestamp table
browser_history_rows(rows, navegador, fuente) ==
    LET fecha == _epoch_to_datetime_generic([i \in DOMAIN rows |-> rows[i].timestamp])
    IN  [i \in DOMAIN rows |->
            [fecha_hora |-> fecha[i],
             url |-> rows[i].url,
             navegador |-> navegador,
             fuente |-> fuente,
             fecha_hora_raw |-> rows[i].timestamp]]

\* candidates of load_browser_histories, in the order of the list
BrowserCandidates ==
    << [name |-> "Chrome", rel |-> "apps/chrome/history.csv"],
       [name |-> "Chrome", rel |-> "apps/chrome/history_full.csv"],
       [name |-> "SamsungInternet", rel |-> "apps/sbrowser/history.csv"],
       [name |-> "Brave", rel |-> "apps/brave/history.csv"] >>

\* pd.concat(dfs, ignore_index=True): the rows of the frames one after the
\* other
RECURSIVE pd_concat(_)
pd_concat(frames) ==
    IF frames = <<>> THEN <<>> ELSE Head(frames) \o pd_concat(Tail(frames))

\* the frames load_browser_histories appends to dfs: one per candidate whose
\* file exists and has rows
RECURSIVE browser_dfs(_, _)
browser_dfs(files, k) ==
    IF k > Len(BrowserCandidates) THEN <<>>
    ELSE (IF files[k].exists /\ _load_csv(files[k]) # <<>>
          THEN <<browser_history_rows(_load_csv(files[k]),
                                      BrowserCandidates[k].name,
                                      BrowserCandidates[k].rel)>>
          ELSE <<>>) \o browser_dfs(files, k + 1)

\* ForensicDataProcessor.load_browser_histories; files[k] is the file of the
\* k-th candidate
load_browser_histories(files) == pd_concat(browser_dfs(files, 1))

\* the browser histories are loaded
LoadBrowserHistories ==
    /\ call.fn = "load_browser_histories"
    /\ ~result.done
    /\ result' = [done |-> TRUE, raised |-> FALSE,
                  val |-> load_browser_histories(call.arg)]
    /\ UNCHANGED <<cfgVars, phase, step, cand, xpc, nread, fs, procs, ncmd,
                   cmds, tries, ret, log, apk_listed, exportVars,
                   cancel_requested, call, studyVars>>

\* csv_path.stem.lower() of the files under apps/
stem_lower(rel) ==
    CASE rel = "apps/chrome/history.csv" -> "history"
      [] rel = "apps/chrome/history_full.csv" -> "history_full"
      [] rel = "apps/sbrowser/history.csv" -> "history"
      [] rel = "apps/brave/history.csv" -> "history"

\* the orders in which apps_dir.rglob("*.csv") may hand out the files: the
\* order of the directory entries, which the file system decides
VisitOrders ==
    {p \in [DOMAIN BrowserCandidates -> DOMAIN BrowserCandidates] :
        \A a, b \in DOMAIN p : a # b => p[a] # p[b]}

\* the loop of load_apps_generic_csv from the k-th file visited on:
\* result[key] = df for every file whose frame has rows
RECURSIVE apps_generic_loop(_, _, _, _)
apps_generic_loop(res, files, order, k) ==
    IF k > Len(BrowserCandidates) THEN res
    ELSE LET c == order[k]
             df == _load_csv(files[c])
         IN  apps_generic_loop(
                 IF files[c].exists /\ df # <<>>
                 THEN dict_set(res, "apps_" \o stem_lower(BrowserCandidates[c].rel), df)
                 ELSE res,
                 files, order, k + 1)

\* ForensicDataProcessor.load_apps_generic_csv on the CSV files under apps/
load_apps_generic_csv(files, order) == apps_generic_loop(<<>>, files, order, 1)

\* the generic CSV tables are loaded
LoadAppsGenericCsv ==
    /\ call.fn = "load_apps_generic_csv"
    /\ ~result.done
    /\ \E order \in VisitOrders :
          result' = [done |-> TRUE, raised |-> FALSE,
                     val |-> load_apps_generic_csv(call.arg, order)]
    /\ UNCHANGED <<cfgVars, phase, step, cand, xpc, nread, fs, procs, ncmd,
                   cmds, tries, ret, log, apk_listed, exportVars,
                   cancel_requested, call, studyVars>>

(* --------------------- ForensicDataProcessor: load_all ------------------ *)
\* a row of apps/whatsapp/whatsapp_messages.csv as RootExtractor writes it
WaRow(jid, text, ts) == [chat_jid |-> jid, text |-> text, timestamp_ms |-> ts]

\* pd.read_csv(path) as load_whatsapp_mensajes and load_exif_inventory call
\* it, outside any try: EmptyDataError, ParserError and UnicodeDecodeError
\* leave the loader
pd_read_csv(file) == IF file.parses THEN Frame(file.rows) ELSE Raised

\* _normalize_whatsapp_mensajes_df on the rows of RootExtractor's table
whatsapp_mensajes_rows(rows) ==
    LET fecha == _epoch_to_datetime_generic([i \in DOMAIN rows |-> rows[i].timestamp_ms])
    IN  [i \in DOMAIN rows |->
            [fecha_hora |-> fecha[i],
             chat_id |-> rows[i].chat_jid,
             mensaje |-> rows[i].text,
             fecha_hora_raw |-> rows[i].timestamp_ms]]

\* ForensicDataProcessor.load_whatsapp_mensajes
load_whatsapp_mensajes(file) ==
    IF ~file.exists THEN Frame(<<>>)
    ELSE LET df == pd_read_csv(file)
         IN  IF df.raised THEN Raised
             ELSE Frame(sort_values(whatsapp_mensajes_rows(df.val)))

\* a case directory: the lines of sms.txt and calllog.txt, the WhatsApp
\* table and the browser history files; every other file is missing
CaseDir(sms, calllog, wa, nav) ==
    [sms |-> sms, calllog |-> calllog, wa |-> wa, nav |-> nav]

NavFiles ==
    { <<NoCsv, NoCsv, NoCsv, NoCsv>>,
      <<NoCsv, NoCsv, NoCsv, Csv(<<CsvRow("u1", TsLate)>>)>>,
      <<NoCsv, NoCsv, NoCsv, BadCsv>>,
      <<Csv(<<CsvRow("u1", TsLate)>>), NoCsv, NoCsv, Csv(<<CsvRow("u2", TsEarly)>>)>> }

CaseDirs ==
    {CaseDir(sms, calllog, wa, nav) :
        sms \in {<<>>, <<GoodLine>>},
        calllog \in {<<>>, <<CallIn>>},
        wa \in {NoCsv, BadCsv, Csv(<<WaRow("j", "k", TsEarly)>>)},
        nav \in NavFiles}

\* `if not df.empty: dfs[key] = df` for the loaders in the order of their
\* calls: the frames with rows, under their keys
not_empty(loaded) ==
    LET HasRows(t) == t.val # <<>>
    IN  SelectSeq(loaded, HasRows)

\* `if not df_app.empty and key not in dfs: dfs[key] = df_app` for every
\* entry of extra_apps
RECURSIVE put_extra_apps(_, _)
put_extra_apps(tbl, extra) ==
    IF extra = <<>> THEN tbl
    ELSE put_extra_apps(
             IF Head(extra).val # <<>> /\ ~\E i \in DOMAIN tbl : tbl[i].key = Head(extra).key
             THEN Append(tbl, Head(extra))
             ELSE tbl,
             Tail(extra))

\* ForensicDataProcessor.load_all on a case directory, with its loaders
\* called one after the other: the exception of a loader leaves load_all.
\* The loaders whose files are missing return empty frames.
load_all_tables(dir, order) ==
    LET wa_msg == load_whatsapp_mensajes(dir.wa)
        loaded ==
            << [key |-> "sms", val |-> load_sms(dir.sms)],
               [key |-> "llamadas", val |-> load_calllog(dir.calllog)],
               [key |-> "whatsapp_mensajes", val |-> wa_msg.val],
               [key |-> "historial_navegadores",
                val |-> load_browser_histories(dir.nav)] >>
    IN  IF wa_msg.raised THEN Raised
        ELSE Frame(put_extra_apps(not_empty(loaded),
                                  load_apps_generic_csv(dir.nav, order)))

\* every table of a case directory is loaded
LoadAll ==
    /\ call.fn = "load_all"
    /\ ~result.done
    /\ \E order \in VisitOrders : result' = load_all_tables(call.arg, order)
    /\ UNCHANGED <<cfgVars, phase, step, cand, xpc, nread, fs, procs, ncmd,
                   cmds, tries, ret, log, apk_listed, exportVars,
                   cancel_requested, call, studyVars>>

(* ------------------ ForensicExcelReport: the workbook ------------------- *)
\* tables handed to one build
MaxTables == 3

\* keys of the dict of tables: three of load_all, one whose upper case is
\* the sheet name of another, the upper case of the summary sheet's name,
\* the key of a generic CSV named a[1].csv, and two keys of 32 characters that
\* differ in the last one. In the order of Python's sorted().
SortedKeys ==
    << "apps_a[1]", "apps_aaaaaaaaaaaaaaaaaaaaaaaaaa1", "apps_aaaaaaaaaaaaaaaaaaaaaaaaaa2", "llamadas", "resumen", "sms", "sms_mms" >>
TableKeys == {SortedKeys[i] : i \in DOMAIN SortedKeys}

\* the dicts of tables: a number of rows for each key (an empty table has 0)
Tables(n) ==
    UNION {[S -> {0, 2}] : S \in {T \in SUBSET TableKeys : Cardinality(T) <= n}}

\* str.upper() on the keys
upper(key) ==
    CASE key = "apps_a[1]" -> "APPS_A[1]"
      [] key = "apps_aaaaaaaaaaaaaaaaaaaaaaaaaa1" -> "APPS_AAAAAAAAAAAAAAAAAAAAAAAAAA1"
      [] key = "apps_aaaaaaaaaaaaaaaaaaaaaaaaaa2" -> "APPS_AAAAAAAAAAAAAAAAAAAAAAAAAA2"
      [] key = "llamadas" -> "LLAMADAS"
      [] key = "resumen" -> "RESUMEN"
      [] key = "sms" -> "SMS"
      [] key = "sms_mms" -> "SMS_MMS"

\* FORENSIC_ARTIFACT_META.get(key, {"name": key.upper(), ...})["name"]
meta_name(key) ==
    CASE key = "sms" -> "SMS_MMS"
      [] key = "llamadas" -> "LLAMADAS"
      [] OTHER -> upper(key)

\* s[:n]
prefix(s, n) == IF Len(s) > n THEN SubSeq(s, 1, n) ELSE s

\* get_artifact_meta(key)[0]: the name cut to the 31 characters Excel takes
get_artifact_meta(key) == prefix(meta_name(key), 31)

\* openpyxl refuses a title with one of \ * ? : / [ ]
InvalidTitleChars == {"\\", "*", "?", ":", "/", "[", "]"}
invalid_title(name) ==
    \E i \in 1..Len(name) : SubSeq(name, i, i) \in InvalidTitleChars

\* the items of the dict in the order of sorted(self.dfs.items())
sorted_items(tables) ==
    LET In(k) == k \in DOMAIN tables
    IN  SelectSeq(SortedKeys, In)

\* df_norm.shape[0]: the rows written for a table, the line "Sin registros."
\* for an empty one
rows_written(n) == IF n = 0 THEN 1 ELSE n

\* df.to_excel(writer, sheet_name=...) with the openpyxl writer in mode "w":
\* a sheet of that name is created unless the writer has one, and then the
\* cells are written into the one it has
to_excel(sheets, name, key, n) ==
    IF \E i \in DOMAIN sheets : sheets[i].name = name
    THEN [i \in DOMAIN sheets |->
             IF sheets[i].name = name
             THEN [sheets[i] EXCEPT !.keys = Append(@, key), !.filas = n]
             ELSE sheets[i]]
    ELSE Append(sheets, [name |-> name, keys |-> <<key>>, filas |-> n])

\* the workbook being built: its sheets, the rows collected for the
\* summary, and whether an exception has ended the `with` block
NewBook == [sheets |-> <<>>, resumen_rows |-> <<>>, failed |-> FALSE]

\* the loop of build over the items from the k-th on
RECURSIVE build_sheets(_, _, _, _)
build_sheets(book, tables, items, k) ==
    IF k > Len(items) \/ book.failed THEN book
    ELSE LET key == items[k]
             sheet_name == get_artifact_meta(key)
             n == rows_written(tables[key])
         IN  IF invalid_title(sheet_name)
             THEN [book EXCEPT !.failed = TRUE]
             ELSE build_sheets(
                      [book EXCEPT
                          !.sheets = to_excel(@, sheet_name, key, n),
                          !.resumen_rows = Append(@, [Hoja |-> sheet_name,
                                                      Artefacto |-> key,
                                                      Filas |-> n])],
                      tables, items, k + 1)

\* the summary sheet, written after the loop
build_resumen(book) ==
    IF book.failed \/ book.resumen_rows = <<>> THEN book
    ELSE [book EXCEPT !.sheets = to_excel(@, "RESUMEN", "", Len(book.resumen_rows))]

\* ForensicExcelReport.build: nothing without tables; the exception of the
\* writer is caught and printed
build(tables) ==
    IF DOMAIN tables = {} THEN NewBook
    ELSE build_resumen(build_sheets(NewBook, tables, sorted_items(tables), 1))

\* a workbook is built from a dict of tables
Build ==
    /\ call.fn = "build"
    /\ ~result.done
    /\ result' = [done |-> TRUE, raised |-> FALSE, val |-> build(call.arg)]
    /\ UNCHANGED <<cfgVars, phase, step, cand, xpc, nread, fs, procs, ncmd,
                   cmds, tries, ret, log, apk_listed, exportVars,
                   cancel_requested, call, studyVars>>

(* ------------------ forensic_bridge: cfg to options --------------------- *)
\* check boxes of the ROOT panel and of the NO-ROOT panel the mapping is
\* studied on
RootOptionNames ==
    {"contacts", "sms", "gmail", "apks", "whatsapp", "copy_device_files",
     "copy_sdcard_entire", "userdata_image"}
NoRootOptionNames ==
    {"contacts", "sms", "wifi_dumpsys", "apks", "bugreport_zip", "whatsapp_public"}

\* the defaults of the RootOptions dataclass
RootOptionsDefault ==
    [n \in RootOptionNames |->
        n \in {"contacts", "sms", "gmail", "apks", "whatsapp"}]

\* AnalysisView.get_config: the dict of the panel under root_options or
\* noroot_options, and the keys of the earlier version beside it
get_config(mode_root_, panel) ==
    IF mode_root_
    THEN [mode_root |-> TRUE,
          options |-> panel,
          sdcard_root |-> panel["copy_sdcard_entire"],
          dd_root |-> panel["userdata_image"],
          nr |-> <<>>]
    ELSE [mode_root |-> FALSE,
          options |-> panel,
          sdcard_root |-> FALSE,
          dd_root |-> FALSE,
          nr |-> panel]

\* the configurations the view can hand over
Configs ==
    {get_config(TRUE, p) : p \in [RootOptionNames -> BOOLEAN]}
        \cup {get_config(FALSE, p) : p \in [NoRootOptionNames -> BOOLEAN]}

\* build_root_options(cfg): only sdcard_root and dd_root are read, every
\* other field keeps the default of RootOptions
build_root_options(cfg) ==
    [RootOptionsDefault EXCEPT !["copy_device_files"] = cfg.sdcard_root,
                               !["copy_sdcard_entire"] = cfg.sdcard_root,
                               !["userdata_image"] = cfg.dd_root]

\* build_noroot_options(cfg): every field from its nr_* key
build_noroot_options(cfg) == [n \in NoRootOptionNames |-> cfg.nr[n]]

\* the options run_forensic_from_cfg hands to extract_all
options_of(cfg) ==
    IF cfg.mode_root THEN build_root_options(cfg) ELSE build_noroot_options(cfg)

\* run_forensic_from_cfg builds the options of the run
BuildOptions ==
    /\ call.fn = "build_options"
    /\ ~result.done
    /\ result' = [done |-> TRUE, raised |-> FALSE, val |-> options_of(call.arg)]
    /\ UNCHANGED <<cfgVars, phase, step, cand, xpc, nread, fs, procs, ncmd,
                   cmds, tries, ret, log, apk_listed, exportVars,
                   cancel_requested, call, studyVars>>

\* the calls the processor functions are studied on
Calls ==
    {[fn |-> f, arg |-> c] :
        f \in {"_epoch_to_datetime_generic", "_epoch_ms_to_datetime"},
        c \in Columns(MaxCol)}
        \cup {[fn |-> "_parse_row_fields", arg |-> RowMarker \o b] :
                  b \in LineBodies(MaxLine)}
        \cup {[fn |-> "load_sms", arg |-> t] : t \in Dumps(MaxRows)}
        \cup {[fn |-> "load_calllog", arg |-> t] : t \in CallDumps(MaxRows)}
        \cup {[fn |-> f, arg |-> fl] :
                  f \in {"load_browser_histories", "load_apps_generic_csv"},
                  fl \in [DOMAIN BrowserCandidates -> CsvFiles]}
        \cup {[fn |-> "load_all", arg |-> d] : d \in CaseDirs}
        \cup {[fn |-> "build", arg |-> t] : t \in Tables(MaxTables)}
        \cup {[fn |-> "build_options", arg |-> c] : c \in Configs}
        \cup {[fn |-> f, arg |-> h] :
                  f \in {"_normalize_whatsapp_mensajes_df",
                         "_normalize_browser_history_df"},
                  h \in DistinctHeaders(MaxColumns)}

\* the processor run on its own (exportacion.export_legible on a case
\* directory): no acquisition is going on
InitLegible ==
    /\ mode_root = FALSE
    /\ opt = [f \in Flags |-> FALSE]
    /\ nalt = 0
    /\ format_mode = "L"
    /\ phase = "legible"
    /\ step = 1
    /\ cand = 1
    /\ xpc = "idle"
    /\ nread = 0
    /\ fs = EmptyFs
    /\ procs = {}
    /\ ncmd = 0
    /\ cmds = <<>>
    /\ tries = [a \in ArtifactIds |-> <<>>]
    /\ ret = [a \in ArtifactIds |-> "none"]
    /\ log = <<>>
    /\ apk_listed = FALSE
    /\ handed = "noroot/logical"
    /\ exc = "none"
    /\ dfs = {}
    /\ cancel_requested = FALSE
    /\ call \in Calls
    /\ result = NoResult
    /\ pipe = NoPipe
    /\ gui = NoGui

NextLegible ==
    \/ EpochToDatetimeGeneric
    \/ EpochMsToDatetime
    \/ ParseRowFields
    \/ LoadSms
    \/ LoadCalllog
    \/ LoadBrowserHistories
    \/ LoadAppsGenericCsv
    \/ LoadAll
    \/ Build
    \/ BuildOptions
    \/ NormalizeWhatsapp
    \/ NormalizeBrowserHistory

SpecLegible == InitLegible /\ [][NextLegible]_vars

(* -------------- adb_exec_out_to_file: the process and its pipes --------- *)
\* bytes an OS pipe holds before a write to it blocks, and the most the
\* bridge process writes to its stdout and to its stderr
PipeCap == 2
MaxOut == 3
MaxErr == 3

\* the transfer right after open(dest_file, "wb"): the process is about to
\* be started and has out_left bytes to write to stdout and err_left to
\* stderr, in any order, before it exits
NewTransfer(o, e) ==
    [pc |-> "popen", alive |-> FALSE, out_left |-> o, err_left |-> e,
     out_buf |-> 0, err_buf |-> 0, written |-> 0, err |-> 0]

\* subprocess.Popen(cmd, stdout=PIPE, stderr=PIPE)
Popen ==
    /\ pipe.pc = "popen"
    /\ pipe' = [pipe EXCEPT !.pc = "reading", !.alive = TRUE]
    /\ UNCHANGED <<cfgVars, phase, step, cand, xpc, nread, fs, procs, ncmd,
                   cmds, tries, ret, log, apk_listed, exportVars,
                   cancel_requested, legibleVars, gui>>

\* the process writes a byte to stdout: the write blocks while the pipe is
\* full
ProcWriteStdout ==
    /\ pipe.pc # "none" /\ pipe.alive
    /\ pipe.out_left > 0
    /\ pipe.out_buf < PipeCap
    /\ pipe' = [pipe EXCEPT !.out_left = @ - 1, !.out_buf = @ + 1]
    /\ UNCHANGED <<cfgVars, phase, step, cand, xpc, nread, fs, procs, ncmd,
                   cmds, tries, ret, log, apk_listed, exportVars,
                   cancel_requested, legibleVars, gui>>

\* the process writes a byte to stderr: the write blocks while the pipe is
\* full
ProcWriteStderr ==
    /\ pipe.pc # "none" /\ pipe.alive
    /\ pipe.err_left > 0
    /\ pipe.err_buf < PipeCap
    /\ pipe' = [pipe EXCEPT !.err_left = @ - 1, !.err_buf = @ + 1]
    /\ UNCHANGED <<cfgVars, phase, step, cand, xpc, nread, fs, procs, ncmd,
                   cmds, tries, ret, log, apk_listed, exportVars,
                   cancel_requested, legibleVars, gui>>

\* the process has written everything and exits: both pipes are closed at
\* its end
ProcExit ==
    /\ pipe.pc # "none" /\ pipe.alive
    /\ pipe.out_left = 0 /\ pipe.err_left = 0
    /\ pipe' = [pipe EXCEPT !.alive = FALSE]
    /\ UNCHANGED <<cfgVars, phase, step, cand, xpc, nread, fs, procs, ncmd,
                   cmds, tries, ret, log, apk_listed, exportVars,
                   cancel_requested, legibleVars, gui>>

\* p.stdout.read(1024 * 1024) takes what the stdout pipe holds, and
\* f.write(chunk) stores it
ReadStdout ==
    /\ pipe.pc = "reading"
    /\ pipe.out_buf > 0
    /\ pipe' = [pipe EXCEPT !.out_buf = 0, !.written = @ + pipe.out_buf]
    /\ UNCHANGED <<cfgVars, phase, step, cand, xpc, nread, fs, procs, ncmd,
                   cmds, tries, ret, log, apk_listed, exportVars,
                   cancel_requested, legibleVars, gui>>

\* p.stdout.read returns b"": the pipe is empty and the process has closed
\* it. The loop ends and p.communicate() is called.
ReadEof ==
    /\ pipe.pc = "reading"
    /\ pipe.out_buf = 0
    /\ ~pipe.alive
    /\ pipe' = [pipe EXCEPT !.pc = "communicate"]
    /\ UNCHANGED <<cfgVars, phase, step, cand, xpc, nread, fs, procs, ncmd,
                   cmds, tries, ret, log, apk_listed, exportVars,
                   cancel_requested, legibleVars, gui>>

\* p.communicate() reads what the stderr pipe holds into err
CommunicateRead ==
    /\ pipe.pc = "communicate"
    /\ pipe.err_buf > 0
    /\ pipe' = [pipe EXCEPT !.err_buf = 0, !.err = @ + pipe.err_buf]
    /\ UNCHANGED <<cfgVars, phase, step, cand, xpc, nread, fs, procs, ncmd,
                   cmds, tries, ret, log, apk_listed, exportVars,
                   cancel_requested, legibleVars, gui>>

\* p.communicate() returns at the end of stderr with the process waited
\* for, and adb_exec_out_to_file returns
CommunicateReturn ==
    /\ pipe.pc = "communicate"
    /\ pipe.err_buf = 0
    /\ ~pipe.alive
    /\ pipe' = [pipe EXCEPT !.pc = "returned"]
    /\ UNCHANGED <<cfgVars, phase, step, cand, xpc, nread, fs, procs, ncmd,
                   cmds, tries, ret, log, apk_listed, exportVars,
                   cancel_requested, legibleVars, gui>>

\* one transfer on its own, with any finite output of the process
InitPipe ==
    /\ mode_root = TRUE
    /\ opt = [f \in Flags |-> FALSE]
    /\ nalt = 0
    /\ format_mode = "L"
    /\ phase = "acquire"
    /\ step = 1
    /\ cand = 1
    /\ xpc = "idle"
    /\ nread = 0
    /\ fs = EmptyFs
    /\ procs = {}
    /\ ncmd = 0
    /\ cmds = <<>>
    /\ tries = [a \in ArtifactIds |-> <<>>]
    /\ ret = [a \in ArtifactIds |-> "none"]
    /\ log = <<>>
    /\ apk_listed = FALSE
    /\ handed = "root/logical"
    /\ exc = "none"
    /\ dfs = {}
    /\ cancel_requested = FALSE
    /\ call = NoCall
    /\ result = NoResult
    /\ gui = NoGui
    /\ pipe \in {NewTransfer(o, e) : o \in 0..MaxOut, e \in 0..MaxErr}

NextPipe ==
    \/ Popen
    \/ ProcWriteStdout
    \/ ProcWriteStderr
    \/ ProcExit
    \/ ReadStdout
    \/ ReadEof
    \/ CommunicateRead
    \/ CommunicateReturn

\* the reader and the process are both scheduled fairly
SpecPipe ==
    /\ InitPipe
    /\ [][NextPipe]_vars
    /\ WF_vars(Popen)
    /\ WF_vars(ProcWriteStdout)
    /\ WF_vars(ProcWriteStderr)
    /\ WF_vars(ProcExit)
    /\ WF_vars(ReadStdout)
    /\ WF_vars(ReadEof)
    /\ WF_vars(CommunicateRead)
    /\ WF_vars(CommunicateReturn)

(* ------------------- main window: the analysis worker -------------------- *)
\* AnalysisWorker objects one session creates
MaxWorkers == 3

WorkerIds == 1..MaxWorkers

\* self.analysis_worker = None
None == 0

\* the main window after construction: no worker, nothing posted to its
\* event loop, no dialog open. A worker is "unborn" before its
\* construction, "run" while run() executes, "returned" after run() has
\* returned, "finishing" once the thread has emitted finished, "finished"
\* when the thread has stopped
NewWindow ==
    [thread |-> "gui",
     analysis_worker |-> None,
     nworkers |-> 0,
     state |-> [w \in WorkerIds |-> "unborn"],
     events |-> <<>>,
     dialogs |-> 0]

\* QThread.isRunning(): true from start() until the thread has stopped; the
\* thread emits finished before that
isRunning(w) == gui.state[w] \in {"run", "returned", "finishing"}

\* a signal of a worker reaches the slot of the main window as an event posted
\* to the event loop of the main thread
post(sig, w) == Append(gui.events, [sig |-> sig, w |-> w])

\* on_run_analysis: the click on the run button. The main window takes no
\* click while a dialog is open
OnRunAnalysis ==
    /\ gui.thread = "gui"
    /\ gui.dialogs = 0
    /\ IF gui.analysis_worker # None /\ isRunning(gui.analysis_worker)
       THEN gui' = [gui EXCEPT !.dialogs = @ + 1]
       ELSE /\ gui.nworkers < MaxWorkers
            /\ gui' = [gui EXCEPT !.nworkers = @ + 1,
                                  !.analysis_worker = gui.nworkers + 1,
                                  !.state[gui.nworkers + 1] = "run"]
    /\ UNCHANGED <<cfgVars, phase, step, cand, xpc, nread, fs, procs, ncmd,
                   cmds, tries, ret, log, apk_listed, exportVars,
                   cancel_requested, legibleVars, pipe>>

\* AnalysisWorker.run comes to its end: finished_ok or error is emitted
WorkerRun ==
    /\ gui.thread = "gui"
    /\ \E w \in WorkerIds, sig \in {"finished_ok", "error"} :
          /\ gui.state[w] = "run"
          /\ gui' = [gui EXCEPT !.state[w] = "returned", !.events = post(sig, w)]
    /\ UNCHANGED <<cfgVars, phase, step, cand, xpc, nread, fs, procs, ncmd,
                   cmds, tries, ret, log, apk_listed, exportVars,
                   cancel_requested, legibleVars, pipe>>

\* the thread emits finished right before it stops
ThreadEmitFinished ==
    /\ gui.thread = "gui"
    /\ \E w \in WorkerIds :
          /\ gui.state[w] = "returned"
          /\ gui' = [gui EXCEPT !.state[w] = "finishing",
                                !.events = post("finished", w)]
    /\ UNCHANGED <<cfgVars, phase, step, cand, xpc, nread, fs, procs, ncmd,
                   cmds, tries, ret, log, apk_listed, exportVars,
                   cancel_requested, legibleVars, pipe>>

\* the thread has stopped
ThreadStopped ==
    /\ gui.thread = "gui"
    /\ \E w \in WorkerIds :
          /\ gui.state[w] = "finishing"
          /\ gui' = [gui EXCEPT !.state[w] = "finished"]
    /\ UNCHANGED <<cfgVars, phase, step, cand, xpc, nread, fs, procs, ncmd,
                   cmds, tries, ret, log, apk_listed, exportVars,
                   cancel_requested, legibleVars, pipe>>

\* on_analysis_finished_ok: a modal message box; its event loop goes on
\* with the posted events
OnAnalysisFinishedOk ==
    /\ gui.thread = "gui"
    /\ gui.events # <<>>
    /\ Head(gui.events).sig = "finished_ok"
    /\ gui' = [gui EXCEPT !.events = Tail(@), !.dialogs = @ + 1]
    /\ UNCHANGED <<cfgVars, phase, step, cand, xpc, nread, fs, procs, ncmd,
                   cmds, tries, ret, log, apk_listed, exportVars,
                   cancel_requested, legibleVars, pipe>>

\* on_analysis_error: a modal message box as well
OnAnalysisError ==
    /\ gui.thread = "gui"
    /\ gui.events # <<>>
    /\ Head(gui.events).sig = "error"
    /\ gui' = [gui EXCEPT !.events = Tail(@), !.dialogs = @ + 1]
    /\ UNCHANGED <<cfgVars, phase, step, cand, xpc, nread, fs, procs, ncmd,
                   cmds, tries, ret, log, apk_listed, exportVars,
                   cancel_requested, legibleVars, pipe>>

\* on_analysis_thread_finished: self.analysis_worker = None, whichever
\* worker sent the signal
OnAnalysisThreadFinished ==
    /\ gui.thread = "gui"
    /\ gui.events # <<>>
    /\ Head(gui.events).sig = "finished"
    /\ gui' = [gui EXCEPT !.events = Tail(@), !.analysis_worker = None]
    /\ UNCHANGED <<cfgVars, phase, step, cand, xpc, nread, fs, procs, ncmd,
                   cmds, tries, ret, log, apk_listed, exportVars,
                   cancel_requested, legibleVars, pipe>>

\* the user closes the message box on top
DismissDialog ==
    /\ gui.thread = "gui"
    /\ gui.dialogs > 0
    /\ gui' = [gui EXCEPT !.dialogs = @ - 1]
    /\ UNCHANGED <<cfgVars, phase, step, cand, xpc, nread, fs, procs, ncmd,
                   cmds, tries, ret, log, apk_listed, exportVars,
                   cancel_requested, legibleVars, pipe>>

InitGui ==
    /\ mode_root = TRUE
    /\ opt = [f \in Flags |-> FALSE]
    /\ nalt = 0
    /\ format_mode = "L"
    /\ phase = "acquire"
    /\ step = 1
    /\ cand = 1
    /\ xpc = "idle"
    /\ nread = 0
    /\ fs = EmptyFs
    /\ procs = {}
    /\ ncmd = 0
    /\ cmds = <<>>
    /\ tries = [a \in ArtifactIds |-> <<>>]
    /\ ret = [a \in ArtifactIds |-> "none"]
    /\ log = <<>>
    /\ apk_listed = FALSE
    /\ handed = "root/logical"
    /\ exc = "none"
    /\ dfs = {}
    /\ cancel_requested = FALSE
    /\ call = NoCall
    /\ result = NoResult
    /\ pipe = NoPipe
    /\ gui = NewWindow

NextGui ==
    \/ OnRunAnalysis
    \/ WorkerRun
    \/ ThreadEmitFinished
    \/ ThreadStopped
    \/ OnAnalysisFinishedOk
    \/ OnAnalysisError
    \/ OnAnalysisThreadFinished
    \/ DismissDialog

SpecGui == InitGui /\ [][NextGui]_vars

C2_FirstFetchableCandidate ==
    \A i \in DOMAIN Cat :
        Cat[i].kind \in StreamKinds =>
            LET t == tries[Cat[i].id]
                fetched(r) == ~r.raised /\ r.rc = 0 /\ r.n > 0
            IN  /\ \A k \in DOMAIN t : t[k].cand = k
                /\ \A k \in DOMAIN t : k < Len(t) => ~fetched(t[k])
                /\ ret[Cat[i].id] = "true" =>
                      Len(t) > 0 /\ fetched(t[Len(t)])
                /\ ret[Cat[i].id] = "false" =>
                      /\ Len(t) = NCand(Cat[i])
                      /\ \A k \in DOMAIN t : ~fetched(t[k])
                /\ (ret[Cat[i].id] = "none" /\ Len(t) > 0) =>
                      (fetched(t[Len(t)]) \/ Len(t) < NCand(Cat[i])
                           \/ phase = "aborted")

\* the first candidate failed by an exception, the second was fetched
C2_Witness ==
    \E i \in DOMAIN Cat :
        /\ Cat[i].kind \in StreamKinds
        /\ ret[Cat[i].id] = "true"
        /\ Len(tries[Cat[i].id]) = 2
        /\ ~tries[Cat[i].id][1].spawned

C4_PartialNeverSuccess ==
    \A i \in DOMAIN Cat :
        (Cat[i].kind \in StreamKinds /\ ret[Cat[i].id] = "true") =>
            LET t == tries[Cat[i].id]
                last == t[Len(t)]
            IN  /\ last.spawned /\ ~last.raised /\ last.rc = 0 /\ last.n > 0
                /\ fs[Cat[i].dest] = [k \in 1..last.n |-> CandByte(last.cand)]

\* a candidate delivered bytes and exited non-zero, the next one was fetched
C4_Witness ==
    \E i \in DOMAIN Cat :
        /\ Cat[i].kind \in StreamKinds
        /\ ret[Cat[i].id] = "true"
        /\ Len(tries[Cat[i].id]) = 2
        /\ tries[Cat[i].id][1].n > 0
        /\ tries[Cat[i].id][1].rc = 1

\* C5: at most one streaming transfer is in flight: whenever a bridge
\* command is started, the bridge process of every earlier transfer has
\* been waited for.
C5_OneTransferInFlight ==
    [][ncmd' # ncmd => (procs = {} /\ Cardinality(procs') <= 1)]_vars

\* C6: copy_raw_files is a byte-exact round trip: after it has run, the copy
\* of every manifest file present in the source equals the source byte for
\* byte, and a manifest file that is absent has no copy.
C6_ByteExactCopy ==
    phase \in {"legible", "excel", "done"} =>
        /\ \A k \in DOMAIN logical_names :
              fs[raw_dst(handed, logical_names[k])] =
                  fs[handed \o "/" \o logical_names[k]]
        /\ \A k \in DOMAIN system_names :
              fs[raw_dst(handed, system_names[k])] =
                  fs[sys_dir(handed) \o "/" \o system_names[k]]

\* C7: run_export leaves the raw store alone: every step of the export
\* changes files of the export directory only, and no file of the raw store
\* is created, rewritten or removed by it.
C7_ExportLeavesRawStore ==
    [][(phase \in {"export", "legible", "excel"}) =>
          (\A p \in Paths : fs'[p] # fs[p] => p \in ExportPaths)]_vars

\* the export has copied a dump and written a table from it, and the dump
\* is still in the raw store
C7_Witness ==
    /\ phase = "done"
    /\ fs[raw_dst(handed, "contacts.txt")] # NoFile
    /\ fs["export/legible/contactos.csv"] # NoFile
    /\ fs[handed \o "/contacts.txt"] # NoFile

C9_DisabledIsSkipped ==
    \A i \in DOMAIN Cat :
        LET e == Cat[i]
            touched == \/ \E k \in DOMAIN cmds : cmds[k] = e.id
                       \/ tries[e.id] # <<>>
                       \/ fs[e.dest] # NoFile
                       \/ ret[e.id] # "none"
        IN  /\ (e.flag # "always" /\ ~opt[e.flag]) => ~touched
            /\ (phase # "aborted" /\ i < step /\ e.flag # "always"
                  /\ opt[e.flag] /\ (e.kind = "apk" => apk_listed)) => touched

\* a finished run in which one artifact was switched off and an artifact
\* after it in the catalog was acquired
C9_Witness ==
    /\ handed # "none"
    /\ \E i, j \in DOMAIN Cat :
          /\ i < j
          /\ Cat[i].flag # "always" /\ ~opt[Cat[i].flag]
          /\ ret[Cat[j].id] = "true"

C11_NoResume ==
    \A i \in DOMAIN Cat :
        Cat[i].kind \in StreamKinds =>
            LET e == Cat[i]
                t == tries[e.id]
                inflight == phase = "acquire" /\ xpc = "reading" /\ step = i
            IN  IF inflight
                THEN fs[e.dest] = [k \in 1..nread |-> CandByte(cand)]
                ELSE t # <<>> =>
                        fs[e.dest] = [k \in 1..t[Len(t)].n |->
                                          CandByte(t[Len(t)].cand)]

\* an attempt delivered bytes and failed, and the attempt on the next
\* candidate has delivered its own
C11_Witness ==
    \E i \in DOMAIN Cat :
        /\ Cat[i].kind \in StreamKinds
        /\ Len(tries[Cat[i].id]) = 2
        /\ tries[Cat[i].id][1].n > 0
        /\ tries[Cat[i].id][2].n > 0
        /\ fs[Cat[i].dest] = <<CandByte(2)>>

\* C12: a block-device copy in flight is cancellable: once a cancellation
\* was requested while the dd transfer is running, the chunk loop reads no
\* further chunk and the transfer does not end as a success.
C12_CancelStopsImageCopy ==
    [][(cancel_requested /\ xpc = "reading" /\ Cur.kind = "stream_dd_image") =>
          (/\ nread' = nread \/ xpc' = "idle"
           /\ ret'[Cur.id] # "true")]_vars

\* no option of the catalog is switched on
EmptyCatalog == \A f \in Flags : ~opt[f]

OwnMagnitude(v) ==
    LET n == to_numeric(str_extract(v, 1, 10, 13))
    IN  IF n = NaN THEN NaT
        ELSE IF DigitsGreater(n, E11) THEN to_datetime_coerce(n)
        ELSE to_datetime_coerce(Times1000(n))

\* C14: the decoder reads each value by its own magnitude, so the seconds
\* and the milliseconds of one instant decode to the same instant whatever
\* else is in the column.
C14_OwnMagnitude ==
    (result.done /\ call.fn = "_epoch_to_datetime_generic") =>
        /\ ~result.raised
        /\ \A i \in DOMAIN call.arg : result.val[i] = OwnMagnitude(call.arg[i])
        /\ \A i, j \in DOMAIN call.arg :
              (call.arg[i] = T10 /\ call.arg[j] = T13) =>
                  result.val[i] = result.val[j]

\* C15: decoding is total. For every column of texts, each decoder returns
\* a column of the same length whose entries are an instant within the
\* range of the type or the no-value marker, and raises nothing.
C15_DecodeTotal ==
    (result.done /\ call.fn \in {"_epoch_to_datetime_generic",
                                 "_epoch_ms_to_datetime"}) =>
        /\ ~result.raised
        /\ Len(result.val) = Len(call.arg)
        /\ \A i \in DOMAIN result.val :
              \/ result.val[i] = NaT
              \/ /\ result.val[i].kind = "instant"
                 /\ ~DigitsGreater(result.val[i].ms, MaxMs)
        /\ \A i \in DOMAIN call.arg :
              (\A k \in DOMAIN call.arg[i] : ~IsDigit(call.arg[i][k])) =>
                  result.val[i] = NaT

\* a column with a text without digits and a value out of range was
\* decoded: both entries are the no-value marker
C15_Witness ==
    /\ call.fn \in {"_epoch_to_datetime_generic", "_epoch_ms_to_datetime"}
    /\ result.done /\ ~result.raised
    /\ Len(call.arg) = 2
    /\ call.arg[1] = <<"a", "b", "c">>
    /\ DigitRun(call.arg[2], 1) = 10
    /\ result.val = <<NaT, NaT>>

\* a whitespace-delimited token of the form identifier=... starts at i
TokenStart(s, i) ==
    /\ IsWord(s[i])
    /\ i = 1 \/ IsSpace(s[i - 1])
    /\ WordEnd(s, i) <= Len(s)
    /\ s[WordEnd(s, i)] = "="

\* the text of the field whose token starts at i: from its equals sign up
\* to the next token, or to the end of the line
RECURSIVE TokenValueEnd(_, _)
TokenValueEnd(s, j) ==
    IF j > Len(s) THEN Len(s)
    ELSE IF TokenStart(s, j) THEN j - 1
    ELSE TokenValueEnd(s, j + 1)

TokenValue(s, i) ==
    SubSeq(s, WordEnd(s, i) + 1, TokenValueEnd(s, WordEnd(s, i) + 1))

\* a value without the blanks around it and the separators and blanks at
\* its end
RECURSIVE Trimmed(_)
Trimmed(v) ==
    IF v # <<>> /\ (IsSpace(v[Len(v)]) \/ v[Len(v)] \in {",", ";"})
    THEN Trimmed(SubSeq(v, 1, Len(v) - 1)) ELSE lstrip(v)

\* C16: every key=value token of a record line gives its key mapped to the
\* text from the equals sign up to the next whitespace-delimited
\* identifier= token or the end of the line, separators at the end removed,
\* whatever the value contains (the last token wins for a repeated key;
\* blanks around a value are not compared).
C16_EveryTokenParsed ==
    (result.done /\ call.fn = "_parse_row_fields") =>
        \A i \in DOMAIN call.arg :
            LET s == call.arg
                k == SubSeq(s, i, WordEnd(s, i) - 1)
            IN  (/\ TokenStart(s, i)
                 /\ \A j \in DOMAIN s :
                       (j > i /\ TokenStart(s, j)) =>
                           SubSeq(s, j, WordEnd(s, j) - 1) # k) =>
                    /\ \E n \in DOMAIN result.val : result.val[n].key = k
                    /\ Trimmed(dict_get(result.val, k, <<>>)) =
                           Trimmed(TokenValue(s, i))

\* " ".join(f"{k}={v}") after the record marker
RECURSIVE serialize_fields(_)
serialize_fields(d) ==
    IF d = <<>> THEN <<>>
    ELSE Head(d).key \o <<"=">> \o Head(d).val
             \o (IF Len(d) > 1 THEN <<" ">> ELSE <<>>)
             \o serialize_fields(Tail(d))

\* C17: parsing is idempotent on the recognised fields: the field map of a
\* record line, written again as key=value tokens on a marker line and
\* parsed again, is the same field map.
C17_ParseIdempotent ==
    (result.done /\ call.fn = "_parse_row_fields") =>
        _parse_row_fields(RowMarker \o serialize_fields(result.val)) = result.val

\* the record lines of a dump from which at least one field is parsed
RECURSIVE WellFormed(_)
WellFormed(lines) ==
    IF lines = <<>> THEN <<>>
    ELSE (IF startswith_Row(Head(lines)) /\ _parse_row_fields(Head(lines)) # <<>>
          THEN <<Head(lines)>> ELSE <<>>) \o WellFormed(Tail(lines))

\* C18: a record line from which no field can be parsed is skipped and gives
\* no row, while every other record line of the dump gives its row: the
\* table has one row per well-formed record line, with the fields of that
\* line.
C18_MalformedLineSkipped ==
    (result.done /\ call.fn = "load_sms") =>
        LET good == WellFormed(call.arg)
        IN  /\ Len(result.val) = Len(good)
            /\ \A i \in DOMAIN good :
                  \E n \in DOMAIN result.val :
                      result.val[n].mensaje =
                          dict_get(_parse_row_fields(good[i]),
                                   <<"b", "o", "d", "y">>, <<>>)

\* the normalizers under study, their alias tables and canonical columns
Normalizers ==
    {"_normalize_whatsapp_mensajes_df", "_normalize_browser_history_df"}
AliasTable(fn) ==
    IF fn = "_normalize_whatsapp_mensajes_df" THEN WaAliases ELSE BrowserAliases
Canonical(fn) ==
    IF fn = "_normalize_whatsapp_mensajes_df" THEN WaPreferidas
    ELSE BrowserPreferidas

\* C19: for each canonical field exactly one raw field is mapped to it, the
\* first alias in declared order that is among the raw names compared
\* without case; the other aliases present are not mapped to it, and
\* without any alias present the field is left out and nothing is raised.
C19_FirstAliasWins ==
    (result.done /\ call.fn \in Normalizers) =>
        /\ ~result.raised
        /\ \A t \in DOMAIN AliasTable(call.fn) :
              LET e == AliasTable(call.fn)[t]
                  present == {k \in DOMAIN e.names :
                                 \E i \in DOMAIN call.arg :
                                     lower(call.arg[i].raw) = e.names[k]}
                  first == CHOOSE k \in present : \A j \in present : k <= j
                  mapped == {n \in DOMAIN result.val :
                                /\ result.val[n].name = e.canon
                                /\ result.val[n].raw # "derived"}
              IN  IF present = {} THEN mapped = {}
                  ELSE /\ Cardinality(mapped) = 1
                       /\ \A n \in mapped :
                             lower(result.val[n].raw) = e.names[first]

CallCodes == {<<"1">>, <<"2">>, <<"3">>, <<"4">>, <<"5">>, <<"6">>, <<"7">>}

\* C21: call-type normalization is total. load_calllog never raises, and in
\* every row it returns the label is the one of the table for the row's code
\* ("1" gives ENTRANTE, "3" gives PERDIDA) and DESCONOCIDO for every code
\* the table does not have, the empty one included.
C21_CallTypeTotal ==
    (call.fn = "load_calllog" /\ result.done) =>
        /\ ~result.raised
        /\ \A i \in DOMAIN result.val :
              LET r == result.val[i]
              IN  /\ r.tipo_codigo = <<"1">> => r.tipo_descripcion = "ENTRANTE"
                  /\ r.tipo_codigo = <<"3">> => r.tipo_descripcion = "PERDIDA"
                  /\ r.tipo_codigo \in CallCodes <=> r.tipo_descripcion # "DESCONOCIDO"
                  /\ r.tipo_descripcion # Missing

\* a dump with a received call, a code outside the table and no code at all
C21_Witness ==
    /\ call.fn = "load_calllog"
    /\ result.done
    /\ \E i, j \in DOMAIN result.val :
          /\ result.val[i].tipo_codigo = <<"1">>
          /\ result.val[i].tipo_descripcion = "ENTRANTE"
          /\ result.val[j].tipo_codigo \in {<<"9", "9">>, <<>>}
          /\ result.val[j].tipo_descripcion = "DESCONOCIDO"


\* rows in ascending order of fecha_hora with the undated rows at the end
Ascending(rows) ==
    \A i, j \in DOMAIN rows : i < j => ~fecha_before(rows[j], rows[i])

\* the undated rows of a table, in the order of the table
IsUndated(r) == r.fecha_hora = NaT
Undated(rows) == SelectSeq(rows, IsUndated)

\* the rows of a dump in the order of its lines, each line loaded on its own
RECURSIVE SmsLineByLine(_)
SmsLineByLine(lines) ==
    IF lines = <<>> THEN <<>>
    ELSE load_sms(<<Head(lines)>>) \o SmsLineByLine(Tail(lines))

RECURSIVE CalllogLineByLine(_)
CalllogLineByLine(lines) ==
    IF lines = <<>> THEN <<>>
    ELSE load_calllog(<<Head(lines)>>) \o CalllogLineByLine(Tail(lines))

\* C22: every table with a timestamp field is in ascending timestamp order:
\* the rows whose timestamp did not decode come after all dated rows and keep
\* the order they had in the source. Stated of the SMS table, the call log
\* and the merged browser histories.
C22_RowsInTimestampOrder ==
    result.done =>
        /\ call.fn \in {"load_sms", "load_calllog", "load_browser_histories"}
              => Ascending(result.val)
        /\ call.fn = "load_sms"
              => Undated(result.val) = Undated(SmsLineByLine(call.arg))
        /\ call.fn = "load_calllog"
              => Undated(result.val) = Undated(CalllogLineByLine(call.arg))


\* the rows of the sources of a table, one source after the other
RECURSIVE SourceRows(_, _, _)
SourceRows(files, k, stem) ==
    IF k > Len(BrowserCandidates) THEN <<>>
    ELSE (IF files[k].exists /\ (stem = "" \/ stem_lower(BrowserCandidates[k].rel) = stem)
          THEN files[k].rows ELSE <<>>) \o SourceRows(files, k + 1, stem)

\* the rows of a merged table that name a source as their provenance
FromSource(rows, rel) ==
    LET Is(r) == r.fuente = rel
    IN  SelectSeq(rows, Is)

\* C23: a table fed by several raw sources is the append of its sources. The
\* merged browser history has as many rows as its present sources together
\* and the rows that name a source are the rows of that source; a generic
\* app table has the rows of every file that feeds it, none overwritten.
C23_MergeIsAppend ==
    /\ (call.fn = "load_browser_histories" /\ result.done) =>
          /\ Len(result.val) = Len(SourceRows(call.arg, 1, ""))
          /\ \A k \in DOMAIN BrowserCandidates :
                LET mine == FromSource(result.val, BrowserCandidates[k].rel)
                    src == _load_csv(call.arg[k])
                IN  /\ Len(mine) = Len(src)
                    /\ \A i \in DOMAIN mine :
                          /\ mine[i].url = src[i].url
                          /\ mine[i].fecha_hora_raw = src[i].timestamp
                          /\ mine[i].navegador = BrowserCandidates[k].name
    /\ (call.fn = "load_apps_generic_csv" /\ result.done) =>
          \A i \in DOMAIN result.val :
              Len(result.val[i].val) =
                  Len(SourceRows(call.arg, 1,
                                 SubSeq(result.val[i].key, 6, Len(result.val[i].key))))


\* the key of table k is in the dict load_all returned
HasTable(k) == \E i \in DOMAIN result.val : result.val[i].key = k

\* C24: a failure while one artifact is read or normalized never aborts the
\* others. load_all returns, and its dict has the table of every artifact
\* whose raw data is present and readable, whatever happened to the others.
C24_LoadFailureIsolated ==
    (call.fn = "load_all" /\ result.done) =>
        /\ ~result.raised
        /\ call.arg.sms # <<>> => HasTable("sms")
        /\ call.arg.calllog # <<>> => HasTable("llamadas")
        /\ _load_csv(call.arg.wa) # <<>> => HasTable("whatsapp_mensajes")
        /\ (\E k \in DOMAIN call.arg.nav : _load_csv(call.arg.nav[k]) # <<>>)
              => HasTable("historial_navegadores")


\* the sheets of a workbook other than the summary, and the summary
DataSheets(book) ==
    LET IsData(s) == s.name # "RESUMEN" \/ s.keys # <<"">>
    IN  SelectSeq(book.sheets, IsData)
SummarySheets(book) ==
    LET IsSummary(s) == s.name = "RESUMEN" /\ s.keys[Len(s.keys)] = ""
    IN  SelectSeq(book.sheets, IsSummary)

\* C25: a non-empty dict of n tables gives a workbook with exactly n data
\* sheets, one per table, and a summary sheet of its own with exactly n rows,
\* one per table; the sheet of a table without rows holds one placeholder
\* row.
C25_OneSheetPerTable ==
    (call.fn = "build" /\ result.done /\ DOMAIN call.arg # {}) =>
        LET book == result.val
            n == Cardinality(DOMAIN call.arg)
        IN  /\ ~book.failed
            /\ Len(DataSheets(book)) = n
            /\ \A k \in DOMAIN call.arg :
                  \E i \in DOMAIN book.sheets :
                      /\ book.sheets[i].keys = <<k>>
                      /\ call.arg[k] = 0 => book.sheets[i].filas = 1
            /\ Len(book.sheets) = n + 1
            /\ Len(SummarySheets(book)) = 1
            /\ Len(book.resumen_rows) = n
            /\ \A k \in DOMAIN call.arg :
                  \E i \in DOMAIN book.resumen_rows :
                      book.resumen_rows[i].Artefacto = k


\* C26: sheet names resolve collisions. For tables with distinct keys the
\* sheet names are pairwise distinct, at most 31 characters long, free of the
\* characters a workbook forbids and different from the summary sheet's
\* name, and no sheet receives two tables.
C26_SheetNamesDistinct ==
    (call.fn = "build" /\ result.done) =>
        /\ \A k1, k2 \in DOMAIN call.arg :
              k1 # k2 => get_artifact_meta(k1) # get_artifact_meta(k2)
        /\ \A k \in DOMAIN call.arg :
              /\ Len(get_artifact_meta(k)) <= 31
              /\ ~invalid_title(get_artifact_meta(k))
              /\ get_artifact_meta(k) # "RESUMEN"
        /\ \A i \in DOMAIN result.val.sheets : Len(result.val.sheets[i].keys) = 1


\* the CSV files export_csv_legible writes for a table
CsvPathsOf(k) ==
    IF k = "sms"
    THEN {"export/legible/sms_legible.csv", "export/legible/sms_resumen_por_numero.csv"}
    ELSE {"export/legible/contactos.csv"}

\* C27: the workbook is a sink of its own. When export_excel_resumen is
\* reached the CSV file of every table is already written; whatever happens
\* while the workbook is built, the step ends the export normally, raises
\* nothing into run_export and leaves every file but the workbook as it was.
C27_WorkbookFailureNotFatal ==
    [][(phase = "excel") =>
          (/\ phase' = "done"
           /\ exc' = exc
           /\ \A k \in dfs : \A p \in CsvPathsOf(k) : fs[p] # NoFile
           /\ \A p \in Paths :
                 p # "export/resumen_forense.xlsx" => fs'[p] = fs[p])]_vars

\* the workbook could not be built, the export is over and the CSV file of
\* the table is there
C27_Witness ==
    /\ phase = "done"
    /\ exc = "none"
    /\ dfs # {}
    /\ fs["export/resumen_forense.xlsx"] \in {NoFile, <<"sheet">>}
    /\ \A k \in dfs : \A p \in CsvPathsOf(k) : fs[p] # NoFile


\* C28: a transfer cannot deadlock with the bridge process. Whatever finite
\* amount the process writes to stdout and stderr, in whatever order, with
\* reader and process scheduled fairly, adb_exec_out_to_file returns.
C28_TransferReturns == <>(pipe.pc = "returned")


\* C29: run_forensic_from_cfg honours its configuration. Every artifact the
\* configuration marks as disabled (an entry of root_options in root mode,
\* of noroot_options and its nr_* key otherwise) is disabled in the options
\* handed to extract_all.
C29_DisabledInCfgIsDisabled ==
    (call.fn = "build_options" /\ result.done) =>
        \A n \in DOMAIN call.arg.options :
            ~call.arg.options[n] => ~result.val[n]


\* workers whose run() is executing, and workers whose thread is running
InRun == {w \in WorkerIds : gui.thread = "gui" /\ gui.state[w] = "run"}
Running == {w \in WorkerIds : gui.thread = "gui" /\ isRunning(w)}

\* C30: the main window never runs two analyses at once. Across every
\* sequence of clicks on the run button and completions of workers, at
\* most one AnalysisWorker is executing its analysis.
C30_OneAnalysisAtATime == Cardinality(InRun) <= 1

====
